---- MODULE Spec2Model ----
(***************************************************************************)
(* Generation job orchestration of services/geminiService.ts:              *)
(* retryWithBackoff, the video fan-out of generateVideo with its poll      *)
(* loop, the aggregation after Promise.allSettled and the image fallback.  *)
(***************************************************************************)
EXTENDS Integers, Sequences, FiniteSets, TLC

\* ---------------------------------------------------------------- bounds
\* Largest options.count a request is submitted with.
MaxCount == 2
\* Largest maxRetries argument the stand-alone executor is run with.
MaxRetriesArg == 4
MaxTrace == 6
MaxChunks == 3

\* ------------------------------------------------------ program constants
\* retryWithBackoff's default maxRetries and baseDelay.
DefaultMaxRetries == 3
DefaultBaseDelay == 2000
PollInterval == 5000
DefaultSampleRate == 24000
HeaderBytes == 44

\* ---------------------------------------------------------------- strings
StartsWith(s, p) == Len(s) >= Len(p) /\ SubSeq(s, 1, Len(p)) = p

\* String.prototype.includes
Includes(s, p) ==
  \E k \in 1..(Len(s) - Len(p) + 1) : SubSeq(s, k, k + Len(p) - 1) = p

DropPrefix(s, p) == SubSeq(s, Len(p) + 1, Len(s))

UpperChars == <<"A", "B", "C", "D", "E", "F", "G", "H", "I", "J", "K", "L", "M",
                "N", "O", "P", "Q", "R", "S", "T", "U", "V", "W", "X", "Y", "Z">>
LowerChars == <<"a", "b", "c", "d", "e", "f", "g", "h", "i", "j", "k", "l", "m",
                "n", "o", "p", "q", "r", "s", "t", "u", "v", "w", "x", "y", "z">>

LowerChar(c) ==
  IF \E k \in 1..26 : UpperChars[k] = c
  THEN LowerChars[CHOOSE k \in 1..26 : UpperChars[k] = c]
  ELSE c

\* String.prototype.toLowerCase
RECURSIVE toLowerCase(_)
toLowerCase(s) ==
  IF Len(s) = 0 THEN ""
  ELSE LowerChar(SubSeq(s, 1, 1)) \o toLowerCase(SubSeq(s, 2, Len(s)))

Digits == <<"0", "1", "2", "3", "4", "5", "6", "7", "8", "9">>

\* Decimal rendering of a natural number (template literals, JSON.stringify).
RECURSIVE NumToString(_)
NumToString(n) ==
  IF n < 10 THEN Digits[n + 1]
  ELSE NumToString(n \div 10) \o Digits[(n % 10) + 1]

\* Math.pow(2, n)
RECURSIVE Pow2(_)
Pow2(n) == IF n = 0 THEN 1 ELSE 2 * Pow2(n - 1)

\* ----------------------------------------------------------------- errors
\* A thrown JavaScript value.  kind "string" is a thrown string (text);
\* kind "object" is an object with optional status, code (0 = absent),
\* message and error.message ("" = absent).  kind "none" is no error.
Err(kind, status, code, message, nested, text) ==
  [kind |-> kind, status |-> status, code |-> code, message |-> message,
   nested |-> nested, text |-> text]

NoError == Err("none", 0, 0, "", "", "")
NewError(message) == Err("object", 0, 0, message, "", "")

\* JSON.stringify of an error object that has no message: its own
\* enumerable status and code.
JSONstringify(e) ==
  "{"
  \o (IF e.status # 0 THEN "\"status\":" \o NumToString(e.status) ELSE "")
  \o (IF e.status # 0 /\ e.code # 0 THEN "," ELSE "")
  \o (IF e.code # 0 THEN "\"code\":" \o NumToString(e.code) ELSE "")
  \o "}"

getErrorMessage(error) ==
  IF error.kind = "none" THEN "Unknown error"
  ELSE IF error.kind = "string"
    THEN (IF error.text = "" THEN "Unknown error" ELSE error.text)
  ELSE IF error.message # "" THEN error.message
  ELSE IF error.nested # "" THEN error.nested
  ELSE JSONstringify(error)

\* The statuses a thrown string has none of.
StatusOf(error) == IF error.kind = "object" THEN error.status ELSE 0
CodeOf(error) == IF error.kind = "object" THEN error.code ELSE 0

isOverloaded(error) ==
  LET msg == toLowerCase(getErrorMessage(error))
  IN  \/ StatusOf(error) = 503
      \/ CodeOf(error) = 503
      \/ Includes(msg, "overloaded")
      \/ Includes(msg, "503")
      \/ StatusOf(error) = 429
      \/ CodeOf(error) = 429

\* A value is truthy unless it is undefined or the empty string.
Truthy(error) ==
  /\ error.kind # "none"
  /\ ~(error.kind = "string" /\ error.text = "")

\* ------------------------------------------------------- retryWithBackoff
\* One execution of retryWithBackoff: the loop variable i, where the
\* execution stands (pc: "call" while operation() is pending, "sleep" while
\* wait(delay) is pending, "returned", "thrown"), lastError, the pending
\* delay, and the value returned or the reason thrown.
NoValue == [tag |-> "none"]

RetryState(pc, i, lastError, delay, value, reason) ==
  [pc |-> pc, i |-> i, lastError |-> lastError, delay |-> delay,
   value |-> value, reason |-> reason]

\* The head of the for loop with the loop variable at i: the operation is
\* invoked while i < maxRetries; past the loop lastError is thrown.
RetryLoopHead(r, i, maxRetries) ==
  IF i < maxRetries
  THEN [r EXCEPT !.pc = "call", !.i = i, !.delay = 0]
  ELSE [r EXCEPT !.pc = "thrown", !.i = i, !.delay = 0, !.reason = r.lastError]

\* The loop as a do-while: the operation is invoked before the budget is
\* looked at.
RetryBeginAtLeastOnce(maxRetries) ==
  RetryState("call", 0, NoError, 0, NoValue, NoError)

\* retryWithBackoff is called: let lastError; i = 0.
RetryBegin(maxRetries) ==
  RetryLoopHead(RetryState("call", 0, NoError, 0, NoValue, NoError), 0, maxRetries)

\* return await operation()
RetryOnResolve(r, v) == [r EXCEPT !.pc = "returned", !.value = v]

\* The catch block with the budget test off by one (i < maxRetries - 2).
RetryOnRejectShortBudget(r, error, maxRetries, baseDelay) ==
  IF isOverloaded(error) /\ r.i < maxRetries - 2
  THEN [r EXCEPT !.pc = "sleep", !.lastError = error,
                 !.delay = baseDelay * Pow2(r.i)]
  ELSE [r EXCEPT !.pc = "thrown", !.lastError = error, !.reason = error]

\* The catch block retrying whatever the error is (isOverloaded not tested).
RetryOnRejectAnyError(r, error, maxRetries, baseDelay) ==
  IF r.i < maxRetries - 1
  THEN [r EXCEPT !.pc = "sleep", !.lastError = error,
                 !.delay = baseDelay * Pow2(r.i)]
  ELSE [r EXCEPT !.pc = "thrown", !.lastError = error, !.reason = error]

\* The catch block with a delay growing linearly (baseDelay * (i + 1)).
RetryOnRejectLinearDelay(r, error, maxRetries, baseDelay) ==
  IF isOverloaded(error) /\ r.i < maxRetries - 1
  THEN [r EXCEPT !.pc = "sleep", !.lastError = error,
                 !.delay = baseDelay * (r.i + 1)]
  ELSE [r EXCEPT !.pc = "thrown", !.lastError = error, !.reason = error]

\* The catch block throwing the first error it recorded instead of the
\* one it caught.
RetryOnRejectFirstError(r, error, maxRetries, baseDelay) ==
  IF isOverloaded(error) /\ r.i < maxRetries - 1
  THEN [r EXCEPT !.pc = "sleep",
                 !.lastError = IF r.lastError.kind = "none" THEN error
                               ELSE r.lastError,
                 !.delay = baseDelay * Pow2(r.i)]
  ELSE [r EXCEPT !.pc = "thrown",
                 !.lastError = IF r.lastError.kind = "none" THEN error
                               ELSE r.lastError,
                 !.reason = IF r.lastError.kind = "none" THEN error
                            ELSE r.lastError]

\* The catch block.
RetryOnReject(r, error, maxRetries, baseDelay) ==
  IF isOverloaded(error) /\ r.i < maxRetries - 1
  THEN [r EXCEPT !.pc = "sleep", !.lastError = error,
                 !.delay = baseDelay * Pow2(r.i)]
  ELSE [r EXCEPT !.pc = "thrown", !.lastError = error, !.reason = error]

\* wait(delay) is over: continue, i++.
RetryOnWake(r, maxRetries) == RetryLoopHead(r, r.i + 1, maxRetries)

RetrySettled(r) == r.pc \in {"returned", "thrown"}

\* --------------------------------------------------------------- state
VARIABLES
  req,        \* generateVideo's arguments and the environment's API key
  pc,         \* where generateVideo stands
  inputs,     \* the inputs object of the generateVideos call
  finalInputImageBase64,   \* "" is null
  branches,   \* operations[]: one retryWithBackoff execution per branch
  settled,    \* branch indices in the order their promises settled
  primaryError,   \* e of the catch block (NoError before it is entered)
  fbCalls,    \* generateImageFromText calls made by the catch block
  fbRequest,  \* the arguments of that call
  fbImages,   \* imgs the catch block's call resolved with (<<>> before)
  imgErr,     \* imgErr of the inner catch block (NoError before)
  result,     \* the value generateVideo resolved with
  error,      \* the error generateVideo rejected with
  rx,         \* a stand-alone retryWithBackoff execution
  rxArgs,     \* its maxRetries and baseDelay
  script,     \* what the operation does on its 1st, 2nd, ... invocation
  invoked,    \* how often the operation was invoked
  delays,     \* the delays it waited for, in order
  cerr,       \* an error handed to the catch block's classification
  cls,        \* how it was classified ("" before)
  pollLog,    \* the calls and waits of a traced branch, in order
  mreq,       \* a call of generateImageFromText, generateAudio,
              \* analyzeVideo or transcribeAudio: function and arguments
  mpc,        \* where that call stands
  mcalls,     \* the generateContent calls it has made, in order
  mreply,     \* what its generateContent call settled with
  mresult,    \* the value it resolved with
  merror,     \* the error it rejected with
  encChunks,  \* chunks handed to combineBase64Chunks
  encRate,    \* sampleRate handed to it
  encOut,     \* the string it returned ("" before)
  config,     \* generateVideo's config: the converted referenceImages
  nin,        \* base64Str handed to convertImageToCompatibleFormat
  npc,        \* where that call stands
  nout,       \* the value it resolved with
  nerr,       \* the error it rejected with
  nloads      \* how often it gave an Image a src to decode

videoVars == <<req, config, pc, inputs, finalInputImageBase64, branches, settled,
               primaryError, fbCalls, fbRequest, fbImages, imgErr, result, error>>
retryVars == <<rx, rxArgs, script, invoked, delays>>
classifyVars == <<cerr, cls>>
mediaVars == <<mreq, mpc, mcalls, mreply, mresult, merror>>
encoderVars == <<encChunks, encRate, encOut>>
normVars == <<nin, npc, nout, nerr, nloads>>
nonVideoVars == <<rx, rxArgs, script, invoked, delays, cerr, cls, pollLog,
                  mreq, mpc, mcalls, mreply, mresult, merror,
                  encChunks, encRate, encOut, nin, npc, nout, nerr, nloads>>
nonRetryVars == <<req, config, pc, inputs, finalInputImageBase64, branches, settled,
                  primaryError, fbCalls, fbRequest, fbImages, imgErr, result,
                  error, cerr, cls, pollLog,
                  mreq, mpc, mcalls, mreply, mresult, merror,
                  encChunks, encRate, encOut, nin, npc, nout, nerr, nloads>>
vars == <<req, config, pc, inputs, finalInputImageBase64, branches, settled,
          primaryError, fbCalls, fbRequest, fbImages, imgErr, result, error,
          rx, rxArgs, script, invoked, delays, cerr, cls, pollLog,
          mreq, mpc, mcalls, mreply, mresult, merror,
          encChunks, encRate, encOut, nin, npc, nout, nerr, nloads>>

\* --------------------------------------------------- image normalisation
SupportedSubtypes == {"png", "jpeg", "jpg"}

\* base64Str.match(/^data:image\/(png|jpeg|jpg);base64,/)
IsCompatibleDataUri(base64Str) ==
  \E t \in SupportedSubtypes :
    StartsWith(base64Str, "data:image/" \o t \o ";base64,")

\* [a-zA-Z+]
MimeLetters ==
  {UpperChars[k] : k \in 1..26} \cup {LowerChars[k] : k \in 1..26} \cup {"+"}

\* The first position from k on whose character is not in class.
RECURSIVE ClassRunEnd(_, _, _)
ClassRunEnd(s, k, class) ==
  IF k <= Len(s) /\ SubSeq(s, k, k) \in class
  THEN ClassRunEnd(s, k + 1, class)
  ELSE k

\* s matches /^data:(image\/[a-zA-Z+]+);base64,/
MatchesImageUri(s) ==
  LET e == ClassRunEnd(s, 12, MimeLetters)
  IN  /\ StartsWith(s, "data:image/")
      /\ e > 12
      /\ Len(s) >= e + 7
      /\ SubSeq(s, e, e + 7) = ";base64,"

\* The pass-through branch with the mime type fixed to image/png.
ConvertPassThroughAsPng(base64Str) ==
  [data |-> IF MatchesImageUri(base64Str)
            THEN SubSeq(base64Str,
                        ClassRunEnd(base64Str, 12, MimeLetters) + 8,
                        Len(base64Str))
            ELSE base64Str,
   mimeType |-> "image/png",
   fullDataUri |-> base64Str]

\* The pass-through branch of convertImageToCompatibleFormat:
\* mimeType = match ? match[1] : 'image/png', data = the string with the
\* matched envelope replaced by "".
ConvertPassThrough(base64Str) ==
  [data |-> IF MatchesImageUri(base64Str)
            THEN SubSeq(base64Str,
                        ClassRunEnd(base64Str, 12, MimeLetters) + 8,
                        Len(base64Str))
            ELSE base64Str,
   mimeType |-> IF MatchesImageUri(base64Str)
                THEN SubSeq(base64Str, 6,
                            ClassRunEnd(base64Str, 12, MimeLetters) - 1)
                ELSE "image/png",
   fullDataUri |-> base64Str]

\* The errors convertImageToCompatibleFormat rejects with.
CanvasContextError == NewError("Canvas context failed")
ImageLoadError == NewError("Image conversion failed for Veo compatibility")
ConversionErrors == {CanvasContextError, ImageLoadError}

\* What canvas.toDataURL('image/png') gives for a decoded image.
PngDataUrl == "data:image/png;base64,iVBORw0KGgo"

\* The onload handler of convertImageToCompatibleFormat.
ConvertOnLoad ==
  [data |-> DropPrefix(PngDataUrl, "data:image/png;base64,"),
   mimeType |-> "image/png",
   fullDataUri |-> PngDataUrl]

NoImage == [imageBytes |-> "", mimeType |-> ""]

\* inputs.image = { imageBytes: compat.data, mimeType: compat.mimeType }
WithImage(inp, compat) ==
  [inp EXCEPT !.image = [imageBytes |-> compat.data, mimeType |-> compat.mimeType]]

\* ------------------------------------------------------------- requests
qualitySuffix ==
  ", cinematic lighting, highly detailed, photorealistic, 4k, smooth motion, professional color grading"

enhancedPrompt(prompt) == prompt \o qualitySuffix

API_KEY == "KEY"

Prompts == {"a red fox"}
Models == {"veo-3.1-fast-generate-preview"}
InputImages == {"", "data:image/png;base64,AAAA", "data:image/webp;base64,UklG"}

\* The requests without reference images.
Requests ==
  [prompt : Prompts, model : Models, count : 0..MaxCount,
   inputImage : InputImages, referenceImages : {<<>>}, hasKey : BOOLEAN]

\* config.referenceImages before the conversion loop (numberOfVideos,
\* aspectRatio and resolution are left out).
NoConfig == [referenceImages |-> <<>>]

\* referenceImages && referenceImages.length > 0
\*   && model === 'veo-3.1-generate-preview'
ConvertsReferences(r) ==
  Len(r.referenceImages) > 0 /\ r.model = "veo-3.1-generate-preview"

\* { image: { imageBytes: c.data, mimeType: c.mimeType }, referenceType: 'ASSET' }
RefPayload(c) ==
  [imageBytes |-> c.data, mimeType |-> c.mimeType, referenceType |-> "ASSET"]

\* Where generateVideo goes once the input image is dealt with: into the
\* loop over referenceImages, or on to the fan-out.
AfterInputImage(r) == IF ConvertsReferences(r) THEN "refs" ELSE "fanout"

\* options.count || 1
CountOf(r) == IF r.count = 0 THEN 1 ELSE r.count

\* ------------------------------------------------------ the video service
\* An operation as generateVideos and getVideosOperation return it: the job
\* it names (branch, attempt), whether it is done, and the uri of
\* response.generatedVideos[0].video ("" when there is none).
Op(name, done, uri) ==
  [tag |-> "op", name |-> name, done |-> done, uri |-> uri, error |-> NoError]

NoOp == Op(<<0, 0>>, FALSE, "")

VideoUri(name) ==
  "https://video.example/" \o NumToString(name[1]) \o "-"
    \o NumToString(name[2]) \o "?alt=media"

\* The error member of an operation whose job failed.
JobError(name) ==
  Err("object", 0, 13,
      "Video generation job " \o NumToString(name[1]) \o "-"
        \o NumToString(name[2]) \o " failed", "", "")

\* The operation of a failed job: done, no response, error set.
FailedOp(name) == [Op(name, TRUE, "") EXCEPT !.error = JobError(name)]

\* What the service may answer about job `name`: still running, done with
\* a video, done without one, failed.
OpReplies(name) ==
  {Op(name, FALSE, ""), Op(name, TRUE, VideoUri(name)), Op(name, TRUE, ""),
   FailedOp(name)}

\* The errors a call of branch b may raise: an overload and a fatal one.
ServiceErrors(b) ==
  {Err("object", 503, 0, "The model is overloaded (branch " \o NumToString(b) \o ")", "", ""),
   Err("object", 400, 0, "Invalid argument (branch " \o NumToString(b) \o ")", "", "")}

\* ------------------------------------------------------------- branches
\* One element of operations[]: the retryWithBackoff execution, where its
\* operation stands ("start": generateVideos pending, "wait": wait(5000)
\* pending, "query": getVideosOperation pending, "idle"), its op, and the
\* number of generateVideos calls it has made.
Branch(r, phase, op, starts) ==
  [rx |-> r, phase |-> phase, op |-> op, starts |-> starts]

BranchSettled(br) == RetrySettled(br.rx)

\* The branch after its operation resolved with op / rejected with e.
BranchResolved(br, op) ==
  Branch(RetryOnResolve(br.rx, op), "idle", op, br.starts)

BranchRejected(br, e) ==
  Branch(RetryOnReject(br.rx, e, DefaultMaxRetries, DefaultBaseDelay), "idle",
         br.op, br.starts)

\* The reply handling asking again without wait(5000).
BranchOnOpSkipsWait(br, op) ==
  IF op.done THEN BranchResolved(br, op) ELSE Branch(br.rx, "query", op, br.starts)

\* The branch after an operation reply: while (!op.done) loops, else returns.
BranchOnOp(br, op) ==
  IF op.done THEN BranchResolved(br, op) ELSE Branch(br.rx, "wait", op, br.starts)

\* The branch after its backoff delay going back to polling the operation
\* it had, with no new generateVideos call.
BranchOnWakeKeepsHandle(br) ==
  LET r == RetryOnWake(br.rx, DefaultMaxRetries)
  IN  IF r.pc = "call"
      THEN Branch(r, "wait", br.op, br.starts)
      ELSE Branch(r, "idle", NoOp, br.starts)

\* The branch after its backoff delay: the next attempt invokes the
\* operation, which calls generateVideos.
BranchOnWake(br) ==
  LET r == RetryOnWake(br.rx, DefaultMaxRetries)
  IN  IF r.pc = "call"
      THEN Branch(r, "start", NoOp, br.starts + 1)
      ELSE Branch(r, "idle", NoOp, br.starts)

\* operations.push(retryWithBackoff(...)): the first attempt is under way.
BranchBegin ==
  LET r == RetryBegin(DefaultMaxRetries)
  IN  IF r.pc = "call"
      THEN Branch(r, "start", NoOp, 1)
      ELSE Branch(r, "idle", NoOp, 0)

\* ----------------------------------------------------------- aggregation
Fulfilled(res) == res.rx.pc = "returned"
Rejected(res) == res.rx.pc = "thrown"

\* `${vid.uri}&key=${process.env.API_KEY}`
FullUri(uri) == uri \o "&key=" \o API_KEY

\* The uris pushed as the branches settle instead of in the loop over results.
RECURSIVE ValidUrisBySettled(_, _)
ValidUrisBySettled(results, n) ==
  IF n = 0 THEN <<>>
  ELSE LET rest == ValidUrisBySettled(results, n - 1)
           res  == results[settled[n]]
       IN  IF res.rx.pc = "returned" /\ res.rx.value.uri # ""
           THEN Append(rest, res.rx.value.uri \o "&key=" \o API_KEY)
           ELSE rest

\* The for loop over results: the uris of the first n results.
RECURSIVE ValidUris(_, _)
ValidUris(results, n) ==
  IF n = 0 THEN <<>>
  ELSE LET rest == ValidUris(results, n - 1)
           res  == results[n]
       IN  IF Fulfilled(res) /\ res.rx.value.uri # ""
           THEN Append(rest, FullUri(res.rx.value.uri))
           ELSE rest

HasVideo(res) == Fulfilled(res) /\ res.rx.value.uri # ""

\* primaryMetadata = vid, without the test: the last video wins.
PrimaryMetadataLast(results) ==
  IF \E b \in DOMAIN results : HasVideo(results[b])
  THEN LET b == CHOOSE b \in DOMAIN results :
                  /\ HasVideo(results[b])
                  /\ \A c \in DOMAIN results : HasVideo(results[c]) => c <= b
       IN  results[b].rx.value.uri
  ELSE ""

\* if (!primaryMetadata) primaryMetadata = vid; ("" is null)
PrimaryMetadata(results) ==
  IF \E b \in DOMAIN results : HasVideo(results[b])
  THEN LET b == CHOOSE b \in DOMAIN results :
                  /\ HasVideo(results[b])
                  /\ \A c \in DOMAIN results : HasVideo(results[c]) => b <= c
       IN  results[b].rx.value.uri
  ELSE ""

\* firstError?.reason, without the default error.
FirstErrorNoDefault(results) ==
  LET rejected == {b \in DOMAIN results : Rejected(results[b])}
      first == CHOOSE b \in rejected : \A c \in rejected : b <= c
  IN  IF rejected # {} THEN results[first].rx.reason ELSE NoError

\* The reason of the branch that was rejected first in time.
FirstErrorBySettled(results) ==
  LET rejected == {j \in DOMAIN settled : Rejected(results[settled[j]])}
      first == CHOOSE j \in rejected : \A k \in rejected : j <= k
  IN  IF rejected # {} /\ Truthy(results[settled[first]].rx.reason)
      THEN results[settled[first]].rx.reason
      ELSE NewError("Video generation failed (No valid URIs).")

\* firstError?.reason || new Error("Video generation failed (No valid URIs).")
FirstError(results) ==
  LET rejected == {b \in DOMAIN results : Rejected(results[b])}
      first == CHOOSE b \in rejected : \A c \in rejected : b <= c
  IN  IF rejected # {} /\ Truthy(results[first].rx.reason)
      THEN results[first].rx.reason
      ELSE NewError("Video generation failed (No valid URIs).")

NoResult ==
  [uri |-> "", uris |-> <<>>, hasUris |-> FALSE, videoMetadata |-> "",
   isFallbackImage |-> FALSE]

\* The result carrying only the first uri.
VideoResultPrimaryOnly(results) ==
  LET validUris == ValidUris(results, Len(results))
  IN  [uri |-> IF Len(validUris) > 0 THEN validUris[1] ELSE "",
       uris |-> SubSeq(validUris, 1, 1), hasUris |-> TRUE,
       videoMetadata |-> PrimaryMetadata(results), isFallbackImage |-> FALSE]

\* { uri: validUris[0], uris: validUris, videoMetadata, isFallbackImage: false }
\* ("" is undefined)
VideoResult(results) ==
  LET validUris == ValidUris(results, Len(results))
  IN  [uri |-> IF Len(validUris) > 0 THEN validUris[1] ELSE "", uris |-> validUris, hasUris |-> TRUE,
       videoMetadata |-> PrimaryMetadata(results), isFallbackImage |-> FALSE]

\* ------------------------------------------------------- image fallback
\* "Cinematic movie still, " + prompt
FallbackPromptOfUserPrompt(r) == "Cinematic movie still, " \o r.prompt

\* "Cinematic movie still, " + enhancedPrompt
FallbackPrompt(r) == "Cinematic movie still, " \o enhancedPrompt(r.prompt)

\* finalInputImageBase64 ? [finalInputImageBase64] : []
FallbackInputImages(final) == IF final # "" THEN <<final>> ELSE <<>>

\* The arguments of the catch block's generateImageFromText call.
FallbackRequest(r, final) ==
  [prompt |-> FallbackPrompt(r), model |-> "gemini-2.5-flash-image",
   inputImages |-> FallbackInputImages(final)]

NoRequest == [prompt |-> "", model |-> "", inputImages |-> <<>>]

\* What generateContent may answer: zero, one or two inline images, or an error.
ImageReplies ==
  {[images |-> <<>>, error |-> NoError],
   [images |-> <<"data:image/png;base64,IMG1">>, error |-> NoError],
   [images |-> <<"data:image/png;base64,IMG1", "data:image/jpeg;base64,IMG2">>,
    error |-> NoError],
   [images |-> <<>>, error |-> Err("object", 500, 0, "Image backend failure", "", "")]}

\* generateImageFromText without its images.length === 0 test.
ImageGenOutcomeNoEmptyCheck(reply) ==
  IF reply.error # NoError
  THEN [images |-> <<>>, error |-> NewError(getErrorMessage(reply.error))]
  ELSE [images |-> reply.images, error |-> NoError]

\* generateImageFromText with a catch block that returns what it has.
ImageGenOutcomeSwallowsError(reply) ==
  IF reply.error # NoError
  THEN [images |-> <<>>, error |-> NoError]
  ELSE IF Len(reply.images) = 0
  THEN [images |-> <<>>, error |-> NoError]
  ELSE [images |-> reply.images, error |-> NoError]

\* generateImageFromText after generateContent settled: the images, or the
\* error its catch block rethrows.
ImageGenOutcome(reply) ==
  IF reply.error # NoError
  THEN [images |-> <<>>, error |-> NewError(getErrorMessage(reply.error))]
  ELSE IF Len(reply.images) = 0
  THEN [images |-> <<>>,
        error |-> NewError(getErrorMessage(NewError(
          "No images generated. Safety filter might have been triggered.")))]
  ELSE [images |-> reply.images, error |-> NoError]

\* The fallback result without its flag.
FallbackResultUnflagged(imgs) ==
  [uri |-> IF Len(imgs) > 0 THEN imgs[1] ELSE "", uris |-> <<>>,
   hasUris |-> FALSE, videoMetadata |-> "", isFallbackImage |-> FALSE]

\* { uri: imgs[0], isFallbackImage: true } ("" is undefined)
FallbackResult(imgs) ==
  [uri |-> IF Len(imgs) > 0 THEN imgs[1] ELSE "", uris |-> <<>>, hasUris |-> FALSE, videoMetadata |-> "",
   isFallbackImage |-> TRUE]

\* The inner catch block reporting imgErr instead of e.
CombinedErrorOfFallback(e) ==
  NewError("Video generation failed and Image fallback also failed: "
           \o getErrorMessage(imgErr'))

\* The error of the inner catch block.
CombinedError(e) ==
  NewError("Video generation failed and Image fallback also failed: "
           \o getErrorMessage(e))

MissingKeyError ==
  NewError("API Key is missing. Please select a paid API key via the Google AI Studio button.")

\* ------------------------------------------------- the stand-alone executor
\* What an invocation of the operation does: resolve with a value or reject.
Resolves(v) == [ok |-> TRUE, value |-> [tag |-> "value", v |-> v], error |-> NoError]
Rejects(e) == [ok |-> FALSE, value |-> NoValue, error |-> e]

ScriptOutcomes ==
  {Resolves(7),
   Rejects(Err("object", 503, 0, "Service Unavailable", "", "")),
   Rejects(Err("object", 0, 429, "", "Resource exhausted", "")),
   Rejects(Err("string", 0, 0, "", "", "The model is OVERLOADED")),
   Rejects(Err("object", 400, 0, "Invalid argument", "", ""))}

BaseDelays == {DefaultBaseDelay, 500}

RetryIdle == RetryState("idle", 0, NoError, 0, NoValue, NoError)

\* ------------------------------------------------------------------ Init
VideoIdle ==
  /\ pc = "idle"
  /\ req = [prompt |-> "", model |-> "", count |-> 0, inputImage |-> "",
            referenceImages |-> <<>>, hasKey |-> FALSE]
  /\ config = NoConfig
  /\ inputs = [prompt |-> "", image |-> NoImage]
  /\ finalInputImageBase64 = ""
  /\ branches = <<>>
  /\ settled = <<>>
  /\ primaryError = NoError
  /\ fbCalls = 0
  /\ fbRequest = NoRequest
  /\ fbImages = <<>>
  /\ imgErr = NoError
  /\ result = NoResult
  /\ error = NoError

ExecutorIdle ==
  /\ rx = RetryIdle
  /\ rxArgs = [maxRetries |-> 0, baseDelay |-> 0]
  /\ script = <<>>
  /\ invoked = 0
  /\ delays = <<>>

ClassifierIdle ==
  /\ cerr = NoError
  /\ cls = ""

TraceIdle == pollLog = <<>>

NoMediaRequest ==
  [fn |-> "", prompt |-> "", model |-> "", input |-> "", count |-> 0,
   hasKey |-> FALSE]
NoReply == [images |-> <<>>, audio |-> "", text |-> "", error |-> NoError]
NoMediaResult == [images |-> <<>>, text |-> ""]

MediaIdle ==
  /\ mreq = NoMediaRequest
  /\ mpc = "idle"
  /\ mcalls = <<>>
  /\ mreply = NoReply
  /\ mresult = NoMediaResult
  /\ merror = NoError

EncoderIdle ==
  /\ encChunks = <<>>
  /\ encRate = 0
  /\ encOut = ""

NoConversion == [data |-> "", mimeType |-> "", fullDataUri |-> ""]

NormalizerIdle ==
  /\ nin = ""
  /\ npc = "idle"
  /\ nout = NoConversion
  /\ nerr = NoError
  /\ nloads = 0

\* generateVideo has just been called.
RequestEntry ==
  /\ pc = "entry"
  /\ config = NoConfig
  /\ inputs = [prompt |-> "", image |-> NoImage]
  /\ finalInputImageBase64 = ""
  /\ branches = <<>>
  /\ settled = <<>>
  /\ primaryError = NoError
  /\ fbCalls = 0
  /\ fbRequest = NoRequest
  /\ fbImages = <<>>
  /\ imgErr = NoError
  /\ result = NoResult
  /\ error = NoError

\* generateVideo is called with some request.
Init ==
  /\ req \in Requests
  /\ RequestEntry
  /\ ExecutorIdle
  /\ ClassifierIdle
  /\ TraceIdle
  /\ MediaIdle
  /\ EncoderIdle
  /\ NormalizerIdle

\* --------------------------------------------------------- generateVideo
\* getClient() throws: no API key.
GetClientThrows ==
  /\ pc = "entry"
  /\ ~req.hasKey
  /\ pc' = "thrown"
  /\ error' = MissingKeyError
  /\ UNCHANGED <<req, config, inputs, finalInputImageBase64, branches, settled,
                 primaryError, fbCalls, fbRequest, fbImages, imgErr, result>>
  /\ UNCHANGED nonVideoVars

\* inputs = { prompt: enhancedPrompt }; an input image that is already a
\* PNG/JPEG data URI passes through convertImageToCompatibleFormat, any
\* other one is handed to an Image to decode.
PrepareInputs ==
  /\ pc = "entry"
  /\ req.hasKey
  /\ LET inp == [prompt |-> enhancedPrompt(req.prompt), image |-> NoImage]
     IN  IF req.inputImage = ""
         THEN /\ inputs' = inp
              /\ finalInputImageBase64' = ""
              /\ pc' = AfterInputImage(req)
         ELSE IF IsCompatibleDataUri(req.inputImage)
         THEN /\ inputs' = WithImage(inp, ConvertPassThrough(req.inputImage))
              /\ finalInputImageBase64' = ConvertPassThrough(req.inputImage).fullDataUri
              /\ pc' = AfterInputImage(req)
         ELSE /\ inputs' = inp
              /\ finalInputImageBase64' = ""
              /\ pc' = "converting"
  /\ UNCHANGED <<req, config, branches, settled, primaryError, fbCalls, fbRequest,
                 fbImages, imgErr, result, error>>
  /\ UNCHANGED nonVideoVars

\* img.onload: the conversion resolves with the PNG re-encoding.
ConvertLoaded ==
  /\ pc = "converting"
  /\ inputs' = WithImage(inputs, ConvertOnLoad)
  /\ finalInputImageBase64' = ConvertOnLoad.fullDataUri
  /\ pc' = AfterInputImage(req)
  /\ UNCHANGED <<req, config, branches, settled, primaryError, fbCalls, fbRequest,
                 fbImages, imgErr, result, error>>
  /\ UNCHANGED nonVideoVars

\* img.onerror: the conversion rejects; the catch only warns.
ConvertFailed ==
  /\ pc = "converting"
  /\ pc' = AfterInputImage(req)
  /\ UNCHANGED <<req, config, inputs, finalInputImageBase64, branches, settled,
                 primaryError, fbCalls, fbRequest, fbImages, imgErr, result, error>>
  /\ UNCHANGED nonVideoVars

\* The loop over referenceImages reaches a reference that is a PNG/JPEG
\* data URI: it passes through and is pushed to refsPayload, which is
\* kept in config.referenceImages while it grows.
RefPassesThrough ==
  /\ pc = "refs"
  /\ LET ref == req.referenceImages[Len(config.referenceImages) + 1]
     IN  /\ IsCompatibleDataUri(ref)
         /\ config' = [config EXCEPT !.referenceImages =
                         Append(@, RefPayload(ConvertPassThrough(ref)))]
  /\ pc' = IF Len(config.referenceImages) + 1 = Len(req.referenceImages)
           THEN "fanout" ELSE "refs"
  /\ UNCHANGED <<req, inputs, finalInputImageBase64, branches, settled,
                 primaryError, fbCalls, fbRequest, fbImages, imgErr, result, error>>
  /\ UNCHANGED nonVideoVars

\* The reference is handed to an Image, which loads: the PNG re-encoding
\* is pushed.
RefLoaded ==
  /\ pc = "refs"
  /\ ~IsCompatibleDataUri(req.referenceImages[Len(config.referenceImages) + 1])
  /\ config' = [config EXCEPT !.referenceImages =
                  Append(@, RefPayload(ConvertOnLoad))]
  /\ pc' = IF Len(config.referenceImages) + 1 = Len(req.referenceImages)
           THEN "fanout" ELSE "refs"
  /\ UNCHANGED <<req, inputs, finalInputImageBase64, branches, settled,
                 primaryError, fbCalls, fbRequest, fbImages, imgErr, result, error>>
  /\ UNCHANGED nonVideoVars

\* The conversion of a reference rejected, and the catch only warns (as
\* for the input image).
RefFailedWarns ==
  /\ pc = "refs"
  /\ ~IsCompatibleDataUri(req.referenceImages[Len(config.referenceImages) + 1])
  /\ pc' = "fanout"
  /\ UNCHANGED <<req, config, inputs, finalInputImageBase64, branches, settled,
                 primaryError, fbCalls, fbRequest, fbImages, imgErr, result, error>>
  /\ UNCHANGED nonVideoVars

\* The conversion of a reference rejects: the await is outside the try
\* block, generateVideo rejects with the conversion's error.
RefFailed ==
  /\ pc = "refs"
  /\ ~IsCompatibleDataUri(req.referenceImages[Len(config.referenceImages) + 1])
  /\ \E e \in ConversionErrors : error' = e
  /\ pc' = "thrown"
  /\ UNCHANGED <<req, config, inputs, finalInputImageBase64, branches, settled,
                 primaryError, fbCalls, fbRequest, fbImages, imgErr, result>>
  /\ UNCHANGED nonVideoVars

\* The for loop that fills operations[]: every branch's first generateVideos
\* call is made before Promise.allSettled is awaited.
FanOut ==
  /\ pc = "fanout"
  /\ branches' = [b \in 1..CountOf(req) |-> BranchBegin]
  /\ pc' = "running"
  /\ UNCHANGED <<req, config, inputs, finalInputImageBase64, settled, primaryError,
                 fbCalls, fbRequest, fbImages, imgErr, result, error>>
  /\ UNCHANGED nonVideoVars

\* A branch step that can run only while no other branch is in a wait
\* (wait as a blocking sleep of the whole request).
SetBranchBlocking(b, nb) ==
  /\ \A c \in DOMAIN branches \ {b} :
       ~(branches[c].rx.pc = "sleep"
         \/ (branches[c].rx.pc = "call" /\ branches[c].phase = "wait"))
  /\ branches' = [branches EXCEPT ![b] = nb]
  /\ settled' = IF BranchSettled(nb) THEN Append(settled, b) ELSE settled
  /\ UNCHANGED <<req, config, pc, inputs, finalInputImageBase64, primaryError,
                 fbCalls, fbRequest, fbImages, imgErr, result, error>>

\* A branch step with op shared by all branches (one variable outside the
\* operation instead of the let inside it).
SetBranchSharedOp(b, nb) ==
  /\ branches' = [c \in DOMAIN branches |->
                    IF c = b THEN nb ELSE [branches[c] EXCEPT !.op = nb.op]]
  /\ settled' = IF BranchSettled(nb) THEN Append(settled, b) ELSE settled
  /\ UNCHANGED <<req, config, pc, inputs, finalInputImageBase64, primaryError,
                 fbCalls, fbRequest, fbImages, imgErr, result, error>>

\* Branch b becomes nb; its promise settling is recorded in settled.
SetBranch(b, nb) ==
  /\ branches' = [branches EXCEPT ![b] = nb]
  /\ settled' = IF BranchSettled(nb) THEN Append(settled, b) ELSE settled
  /\ UNCHANGED <<req, config, pc, inputs, finalInputImageBase64, primaryError,
                 fbCalls, fbRequest, fbImages, imgErr, result, error>>

\* generateVideos of branch b resolves.
StartResolvesStep(b) ==
  /\ pc = "running"
  /\ branches[b].rx.pc = "call"
  /\ branches[b].phase = "start"
  /\ \E op \in OpReplies(<<b, branches[b].rx.i>>) :
       SetBranch(b, BranchOnOp(branches[b], op))

\* generateVideos of branch b rejects.
StartRejectsStep(b) ==
  /\ pc = "running"
  /\ branches[b].rx.pc = "call"
  /\ branches[b].phase = "start"
  /\ \E e \in ServiceErrors(b) : SetBranch(b, BranchRejected(branches[b], e))

\* wait(5000) of branch b is over: getVideosOperation({operation: op}).
PollWakeStep(b) ==
  /\ pc = "running"
  /\ branches[b].rx.pc = "call"
  /\ branches[b].phase = "wait"
  /\ SetBranch(b, [branches[b] EXCEPT !.phase = "query"])

\* The status query ending the poll loop whatever the reply says.
QueryResolvesStepOnce(b) ==
  /\ pc = "running"
  /\ branches[b].rx.pc = "call"
  /\ branches[b].phase = "query"
  /\ \E op \in OpReplies(branches[b].op.name) :
       SetBranch(b, BranchResolved(branches[b], op))

\* getVideosOperation of branch b resolves, about the operation asked for.
QueryResolvesStep(b) ==
  /\ pc = "running"
  /\ branches[b].rx.pc = "call"
  /\ branches[b].phase = "query"
  /\ \E op \in OpReplies(branches[b].op.name) :
       SetBranch(b, BranchOnOp(branches[b], op))

\* getVideosOperation of branch b rejects.
QueryRejectsStep(b) ==
  /\ pc = "running"
  /\ branches[b].rx.pc = "call"
  /\ branches[b].phase = "query"
  /\ \E e \in ServiceErrors(b) : SetBranch(b, BranchRejected(branches[b], e))

\* The backoff delay of branch b is over.
BackoffWakeStep(b) ==
  /\ pc = "running"
  /\ branches[b].rx.pc = "sleep"
  /\ SetBranch(b, BranchOnWake(branches[b]))

\* The branch steps with everything outside generateVideo left alone.
StartResolves(b) == StartResolvesStep(b) /\ UNCHANGED nonVideoVars
StartRejects(b) == StartRejectsStep(b) /\ UNCHANGED nonVideoVars
PollWake(b) == PollWakeStep(b) /\ UNCHANGED nonVideoVars
QueryResolves(b) == QueryResolvesStep(b) /\ UNCHANGED nonVideoVars
QueryRejects(b) == QueryRejectsStep(b) /\ UNCHANGED nonVideoVars
BackoffWake(b) == BackoffWakeStep(b) /\ UNCHANGED nonVideoVars

\* Promise.race in place of Promise.allSettled: the first settled promise.
AnySettled == \E b \in DOMAIN branches : BranchSettled(branches[b])

\* Promise.all in place of Promise.allSettled: all fulfilled, or the first
\* rejection.
AllOrFirstRejection ==
  \/ \A b \in DOMAIN branches : BranchSettled(branches[b])
  \/ \E b \in DOMAIN branches : branches[b].rx.pc = "thrown"

\* Promise.allSettled(operations) resolves once every promise settled.
AllSettled == \A b \in DOMAIN branches : BranchSettled(branches[b])

\* After allSettled: some uri was collected, the result is returned.
AggregateReturns ==
  /\ pc = "running"
  /\ AllSettled
  /\ Len(ValidUris(branches, Len(branches))) # 0
  /\ result' = VideoResult(branches)
  /\ pc' = "returned"
  /\ UNCHANGED <<req, config, inputs, finalInputImageBase64, branches, settled,
                 primaryError, fbCalls, fbRequest, fbImages, imgErr, error>>
  /\ UNCHANGED nonVideoVars

\* After allSettled: no uri, and the whole batch is started over.
AggregateRetriesBatch ==
  /\ pc = "running"
  /\ AllSettled
  /\ Len(ValidUris(branches, Len(branches))) = 0
  /\ branches' = [b \in DOMAIN branches |-> BranchBegin]
  /\ settled' = <<>>
  /\ UNCHANGED <<req, config, pc, inputs, finalInputImageBase64, primaryError, fbCalls,
                 fbRequest, fbImages, imgErr, result, error>>
  /\ UNCHANGED nonVideoVars

\* After allSettled: no uri; the throw lands in the catch block, which
\* calls generateImageFromText.
AggregateFallsBack ==
  /\ pc = "running"
  /\ AllSettled
  /\ Len(ValidUris(branches, Len(branches))) = 0
  /\ primaryError' = FirstError(branches)
  /\ fbRequest' = FallbackRequest(req, finalInputImageBase64)
  /\ fbCalls' = fbCalls + 1
  /\ pc' = "fallback"
  /\ UNCHANGED <<req, config, inputs, finalInputImageBase64, branches, settled,
                 fbImages, imgErr, result, error>>
  /\ UNCHANGED nonVideoVars

\* generateImageFromText resolves: the first image is the result.
FallbackReturns ==
  /\ pc = "fallback"
  /\ \E reply \in ImageReplies :
       /\ ImageGenOutcome(reply).error = NoError
       /\ fbImages' = ImageGenOutcome(reply).images
       /\ result' = FallbackResult(ImageGenOutcome(reply).images)
  /\ pc' = "returned"
  /\ UNCHANGED <<req, config, inputs, finalInputImageBase64, branches, settled,
                 primaryError, fbCalls, fbRequest, imgErr, error>>
  /\ UNCHANGED nonVideoVars

\* The inner catch block trying the fallback once more before giving up.
FallbackThrowsRetries ==
  /\ pc = "fallback"
  /\ \E reply \in ImageReplies :
       /\ ImageGenOutcome(reply).error # NoError
       /\ imgErr' = ImageGenOutcome(reply).error
  /\ IF fbCalls < 2
     THEN /\ fbCalls' = fbCalls + 1
          /\ UNCHANGED <<pc, error>>
     ELSE /\ error' = CombinedError(primaryError)
          /\ pc' = "thrown"
          /\ UNCHANGED fbCalls
  /\ UNCHANGED <<req, config, inputs, finalInputImageBase64, branches, settled,
                 primaryError, fbRequest, fbImages, result>>
  /\ UNCHANGED nonVideoVars

\* generateImageFromText rejects: the combined error is thrown.
FallbackThrows ==
  /\ pc = "fallback"
  /\ \E reply \in ImageReplies :
       /\ ImageGenOutcome(reply).error # NoError
       /\ imgErr' = ImageGenOutcome(reply).error
  /\ error' = CombinedError(primaryError)
  /\ pc' = "thrown"
  /\ UNCHANGED <<req, config, inputs, finalInputImageBase64, branches, settled,
                 primaryError, fbCalls, fbRequest, fbImages, result>>
  /\ UNCHANGED nonVideoVars

Next ==
  \/ GetClientThrows
  \/ PrepareInputs
  \/ ConvertLoaded
  \/ ConvertFailed
  \/ FanOut
  \/ \E b \in DOMAIN branches : StartResolves(b)
  \/ \E b \in DOMAIN branches : StartRejects(b)
  \/ \E b \in DOMAIN branches : PollWake(b)
  \/ \E b \in DOMAIN branches : QueryResolves(b)
  \/ \E b \in DOMAIN branches : QueryRejects(b)
  \/ \E b \in DOMAIN branches : BackoffWake(b)
  \/ AggregateReturns
  \/ AggregateFallsBack
  \/ FallbackReturns
  \/ FallbackThrows

Spec == Init /\ [][Next]_vars

\* ---------------------------------------------- retryWithBackoff, alone
\* retryWithBackoff(operation, maxRetries, baseDelay) is called; the
\* operation's behaviour on each invocation is fixed by script.
InitRetry ==
  /\ VideoIdle
  /\ ClassifierIdle
  /\ TraceIdle
  /\ MediaIdle
  /\ EncoderIdle
  /\ NormalizerIdle
  /\ rxArgs \in [maxRetries : 0..MaxRetriesArg, baseDelay : BaseDelays]
  /\ script \in [1..MaxRetriesArg -> ScriptOutcomes]
  /\ rx = RetryBegin(rxArgs.maxRetries)
  /\ invoked = IF rx.pc = "call" THEN 1 ELSE 0
  /\ delays = <<>>

\* The pending invocation of the operation resolves.
RxResolves ==
  /\ rx.pc = "call"
  /\ script[invoked].ok
  /\ rx' = RetryOnResolve(rx, script[invoked].value)
  /\ UNCHANGED <<rxArgs, script, invoked, delays>>
  /\ UNCHANGED nonRetryVars

\* The pending invocation of the operation rejects: the catch block runs
\* and either starts wait(delay) or throws.
RxRejects ==
  /\ rx.pc = "call"
  /\ ~script[invoked].ok
  /\ rx' = RetryOnReject(rx, script[invoked].error, rxArgs.maxRetries, rxArgs.baseDelay)
  /\ delays' = IF rx'.pc = "sleep" THEN Append(delays, rx'.delay) ELSE delays
  /\ UNCHANGED <<rxArgs, script, invoked>>
  /\ UNCHANGED nonRetryVars

\* wait(delay) is over: the loop continues and invokes the operation again.
RxWake ==
  /\ rx.pc = "sleep"
  /\ rx' = RetryOnWake(rx, rxArgs.maxRetries)
  /\ invoked' = IF rx'.pc = "call" THEN invoked + 1 ELSE invoked
  /\ UNCHANGED <<rxArgs, script, delays>>
  /\ UNCHANGED nonRetryVars

NextRetry ==
  \/ RxResolves
  \/ RxRejects
  \/ RxWake

SpecRetry == InitRetry /\ [][NextRetry]_vars

\* ------------------------------------------- the catch block's classifier
\* The errors the classification is applied to: objects with or without a
\* status, a code, a message and a nested error.message, and thrown
\* strings.
ClassifyStatuses == {0, 400, 429, 503}
ClassifyCodes == {0, 429, 503}
ClassifyMessages ==
  {"", "The model is overloaded", "Error 503", "429 Too Many Requests",
   "Rate limit exceeded", "Invalid argument"}
ClassifyNested == {"", "Resource exhausted", "Model Overloaded"}

ClassifyInputs ==
  {Err("object", st, cd, m, n, "") :
     st \in ClassifyStatuses, cd \in ClassifyCodes,
     m \in ClassifyMessages, n \in ClassifyNested}
  \cup {Err("string", 0, 0, "", "", t) : t \in ClassifyMessages \ {""}}

InitClassify ==
  /\ VideoIdle
  /\ ExecutorIdle
  /\ TraceIdle
  /\ MediaIdle
  /\ EncoderIdle
  /\ NormalizerIdle
  /\ cerr \in ClassifyInputs
  /\ cls = ""

\* const msg = ...; const isOverloaded = ...: the error is retried on
\* (budget permitting) when isOverloaded, thrown otherwise.
Classify ==
  /\ cls = ""
  /\ cls' = IF isOverloaded(cerr) THEN "RETRYABLE" ELSE "FATAL"
  /\ UNCHANGED cerr
  /\ UNCHANGED <<videoVars, retryVars, pollLog, mediaVars, encoderVars, normVars>>

NextClassify == Classify

SpecClassify == InitClassify /\ [][NextClassify]_vars

\* --------------------------------------------- one branch, with its trace
\* What the single branch of a one-variant request did, in order, up to
\* MaxTrace entries: "start" (generateVideos settled), "wait" (wait(5000)
\* was awaited), "query" (getVideosOperation({operation: handle}) settled),
\* "backoff" (wait(delay) of retryWithBackoff was awaited).  A call entry
\* holds the operation it resolved with or the error it rejected with.
Event(ev, ms, handle, op, err) ==
  [ev |-> ev, ms |-> ms, handle |-> handle, op |-> op, err |-> err]

Record(log, e) == IF Len(log) < MaxTrace THEN Append(log, e) ELSE log

SingleRequests == {r \in Requests : CountOf(r) = 1}

InitPoll ==
  /\ req \in SingleRequests
  /\ RequestEntry
  /\ ExecutorIdle
  /\ ClassifierIdle
  /\ TraceIdle
  /\ MediaIdle
  /\ EncoderIdle
  /\ NormalizerIdle

TracedStartResolves(b) ==
  /\ StartResolvesStep(b)
  /\ pollLog' = Record(pollLog, Event("start", 0, NoOp.name, branches'[b].op, NoError))
  /\ UNCHANGED <<retryVars, classifyVars, mediaVars, encoderVars, normVars>>

TracedStartRejects(b) ==
  /\ StartRejectsStep(b)
  /\ pollLog' = Record(pollLog, Event("start", 0, NoOp.name, NoOp,
                                      branches'[b].rx.lastError))
  /\ UNCHANGED <<retryVars, classifyVars, mediaVars, encoderVars, normVars>>

TracedPollWake(b) ==
  /\ PollWakeStep(b)
  /\ pollLog' = Record(pollLog, Event("wait", PollInterval, NoOp.name, NoOp, NoError))
  /\ UNCHANGED <<retryVars, classifyVars, mediaVars, encoderVars, normVars>>

TracedQueryResolves(b) ==
  /\ QueryResolvesStep(b)
  /\ pollLog' = Record(pollLog, Event("query", 0, branches[b].op.name,
                                      branches'[b].op, NoError))
  /\ UNCHANGED <<retryVars, classifyVars, mediaVars, encoderVars, normVars>>

TracedQueryRejects(b) ==
  /\ QueryRejectsStep(b)
  /\ pollLog' = Record(pollLog, Event("query", 0, branches[b].op.name, NoOp,
                                      branches'[b].rx.lastError))
  /\ UNCHANGED <<retryVars, classifyVars, mediaVars, encoderVars, normVars>>

TracedBackoffWake(b) ==
  /\ BackoffWakeStep(b)
  /\ pollLog' = Record(pollLog, Event("backoff", branches[b].rx.delay, NoOp.name,
                                      NoOp, NoError))
  /\ UNCHANGED <<retryVars, classifyVars, mediaVars, encoderVars, normVars>>

NextPoll ==
  \/ GetClientThrows
  \/ PrepareInputs
  \/ ConvertLoaded
  \/ ConvertFailed
  \/ FanOut
  \/ \E b \in DOMAIN branches : TracedStartResolves(b)
  \/ \E b \in DOMAIN branches : TracedStartRejects(b)
  \/ \E b \in DOMAIN branches : TracedPollWake(b)
  \/ \E b \in DOMAIN branches : TracedQueryResolves(b)
  \/ \E b \in DOMAIN branches : TracedQueryRejects(b)
  \/ \E b \in DOMAIN branches : TracedBackoffWake(b)
  \/ AggregateReturns
  \/ AggregateFallsBack
  \/ FallbackReturns
  \/ FallbackThrows

SpecPoll == InitPoll /\ [][NextPoll]_vars

\* ----------------------------------------- two variants, fair scheduling
\* The requests for two variants.
PairRequests == {r \in Requests : r.count = 2}

InitLive ==
  /\ req \in PairRequests
  /\ RequestEntry
  /\ ExecutorIdle
  /\ ClassifierIdle
  /\ TraceIdle
  /\ MediaIdle
  /\ EncoderIdle
  /\ NormalizerIdle

\* A step of generateVideo itself (not of one of its branches).
RequestStep ==
  \/ GetClientThrows
  \/ PrepareInputs
  \/ ConvertLoaded
  \/ ConvertFailed
  \/ FanOut
  \/ AggregateReturns
  \/ AggregateFallsBack
  \/ FallbackReturns
  \/ FallbackThrows

\* A pending call, timer or service reply of branch b completes.
BranchProgress(b) ==
  /\ b \in DOMAIN branches
  /\ \/ StartResolves(b)
     \/ StartRejects(b)
     \/ PollWake(b)
     \/ QueryResolves(b)
     \/ QueryRejects(b)
     \/ BackoffWake(b)

\* A status query of branch b finds the job done, or raises.
QuerySettles(b) ==
  /\ b \in DOMAIN branches
  /\ \/ QueryResolves(b) /\ branches'[b].op.done
     \/ QueryRejects(b)

\* Timers fire, pending calls are answered, the event loop runs the
\* continuations; and a job that is asked about again and again is
\* eventually reported done or the query raises.
Fairness ==
  /\ WF_vars(RequestStep)
  /\ \A b \in 1..2 : WF_vars(BranchProgress(b))
  /\ \A b \in 1..2 : SF_vars(QuerySettles(b))

SpecLive == InitLive /\ [][Next]_vars /\ Fairness

\* ------------------------------------- generateVideo, reference images
ReferenceImages ==
  {<<"data:image/png;base64,AAAA">>, <<"data:image/webp;base64,UklG">>,
   <<"data:image/jpeg;base64,AAAA", "data:image/webp;base64,UklG">>,
   <<"data:image/webp;base64,UklG", "https://cdn.example/face.png">>}

\* One variant, with reference images, for the model that takes them and
\* for one that does not.
RefRequests ==
  [prompt : Prompts,
   model : {"veo-3.1-generate-preview", "veo-3.1-fast-generate-preview"},
   count : {1}, inputImage : InputImages, referenceImages : ReferenceImages,
   hasKey : BOOLEAN]

InitRefs ==
  /\ req \in RefRequests
  /\ RequestEntry
  /\ ExecutorIdle
  /\ ClassifierIdle
  /\ TraceIdle
  /\ MediaIdle
  /\ EncoderIdle
  /\ NormalizerIdle

NextRefs ==
  \/ Next
  \/ RefPassesThrough
  \/ RefLoaded
  \/ RefFailed

SpecRefs == InitRefs /\ [][NextRefs]_vars

\* ------------------------------------- convertImageToCompatibleFormat
NormInputs ==
  {"data:image/" \o t \o ";base64," \o d :
     t \in {"png", "jpeg", "jpg", "webp", "gif", "svg+xml", "PNG", "bmp"},
     d \in {"AAAA", "iVBORw0KGgo", "/9j/4AAQ", ""}}
  \cup {"https://cdn.example/a.png", "blob:abc", "data:image/png;base64",
        "data:image/pngx;base64,AAAA", "data:text/plain;base64,AAAA",
        " data:image/png;base64,AAAA"}

nonNormVars ==
  <<videoVars, retryVars, classifyVars, pollLog, mediaVars, encoderVars>>

InitNormalize ==
  /\ VideoIdle
  /\ ExecutorIdle
  /\ ClassifierIdle
  /\ TraceIdle
  /\ MediaIdle
  /\ EncoderIdle
  /\ nin \in NormInputs
  /\ npc = "entry"
  /\ nout = NoConversion
  /\ nerr = NoError
  /\ nloads = 0

\* The input is a PNG/JPEG data URI: the function returns at once.
NormPassesThrough ==
  /\ npc = "entry"
  /\ IsCompatibleDataUri(nin)
  /\ nout' = ConvertPassThrough(nin)
  /\ npc' = "resolved"
  /\ UNCHANGED <<nin, nerr, nloads>>
  /\ UNCHANGED nonNormVars

\* Any other input: img.src = base64Str inside the promise.
NormLoadsImage ==
  /\ npc = "entry"
  /\ ~IsCompatibleDataUri(nin)
  /\ nloads' = nloads + 1
  /\ npc' = "loading"
  /\ UNCHANGED <<nin, nout, nerr>>
  /\ UNCHANGED nonNormVars

\* img.onload with a 2d context: resolve with the PNG re-encoding.
NormOnLoad ==
  /\ npc = "loading"
  /\ nout' = ConvertOnLoad
  /\ npc' = "resolved"
  /\ UNCHANGED <<nin, nerr, nloads>>
  /\ UNCHANGED nonNormVars

\* img.onload without a 2d context: reject.
NormOnLoadNoContext ==
  /\ npc = "loading"
  /\ nerr' = CanvasContextError
  /\ npc' = "rejected"
  /\ UNCHANGED <<nin, nout, nloads>>
  /\ UNCHANGED nonNormVars

\* img.onerror giving the image its src once more.
NormOnErrorLoadsAgain ==
  /\ npc = "loading"
  /\ IF nloads < 3
     THEN /\ nloads' = nloads + 1
          /\ UNCHANGED <<npc, nerr>>
     ELSE /\ nerr' = ImageLoadError
          /\ npc' = "rejected"
          /\ UNCHANGED nloads
  /\ UNCHANGED <<nin, nout>>
  /\ UNCHANGED nonNormVars

\* img.onerror: reject.
NormOnError ==
  /\ npc = "loading"
  /\ nerr' = ImageLoadError
  /\ npc' = "rejected"
  /\ UNCHANGED <<nin, nout, nloads>>
  /\ UNCHANGED nonNormVars

NextNormalize ==
  \/ NormPassesThrough
  \/ NormLoadsImage
  \/ NormOnLoad
  \/ NormOnLoadNoContext
  \/ NormOnError

SpecNormalize == InitNormalize /\ [][NextNormalize]_vars

\* --------------------------------------------------------- audio helpers
\* Byte arrays and binary strings are sequences of numbers 0..255; base64
\* text is a string.
Base64Alphabet ==
  "ABCDEFGHIJKLMNOPQRSTUVWXYZabcdefghijklmnopqrstuvwxyz0123456789+/"

Base64Index(c) == (CHOOSE k \in 1..64 : SubSeq(Base64Alphabet, k, k) = c) - 1
Base64Char(v) == SubSeq(Base64Alphabet, v + 1, v + 1)

\* The data characters of base64 text: what precedes the = padding.
RECURSIVE StripPadding(_)
StripPadding(s) ==
  IF Len(s) > 0 /\ SubSeq(s, Len(s), Len(s)) = "="
  THEN StripPadding(SubSeq(s, 1, Len(s) - 1))
  ELSE s

\* atob: every 4 characters carry 3 bytes; the bits left over after the
\* last whole byte are dropped.  The result is given by its char codes.
atob(base64) ==
  LET d == StripPadding(base64)
      q == [k \in 1..Len(d) |-> Base64Index(SubSeq(d, k, k))]
      n == (Len(d) * 6) \div 8
  IN  [j \in 1..n |->
         LET o == 8 * (j - 1)
             k == o \div 6
             r == o % 6
         IN  ((q[k + 1] * 64 + q[k + 2]) \div Pow2(4 - r)) % 256]

\* The characters k..m of btoa's output for a binary string.
RECURSIVE Base64From(_, _, _)
Base64From(binary, k, m) ==
  IF k > m THEN ""
  ELSE LET o == 6 * (k - 1)
           i == o \div 8
           r == o % 8
           hi == binary[i + 1]
           lo == IF i + 2 <= Len(binary) THEN binary[i + 2] ELSE 0
       IN  Base64Char(((hi * 256 + lo) \div Pow2(10 - r)) % 64)
             \o Base64From(binary, k + 1, m)

\* btoa: every 3 bytes give 4 characters, the last group padded with =.
btoa(binary) ==
  LET m == (8 * Len(binary) + 5) \div 6
      pad == (4 - (m % 4)) % 4
  IN  Base64From(binary, 1, m)
        \o (IF pad = 2 THEN "==" ELSE IF pad = 1 THEN "=" ELSE "")

\* const base64ToUint8Array: bytes[i] = binaryString.charCodeAt(i)
base64ToUint8Array(base64) ==
  LET binaryString == atob(base64)
  IN  [i \in 1..Len(binaryString) |-> binaryString[i]]

\* string.charCodeAt(i) of the characters the header is written with.
CharCode ==
  [c \in {"R", "I", "F", "W", "A", "V", "E", "f", "m", "t", " ", "d", "a"} |->
     CASE c = "R" -> 82 [] c = "I" -> 73 [] c = "F" -> 70 [] c = "W" -> 87
       [] c = "A" -> 65 [] c = "V" -> 86 [] c = "E" -> 69 [] c = "f" -> 102
       [] c = "m" -> 109 [] c = "t" -> 116 [] c = " " -> 32 [] c = "d" -> 100
       [] c = "a" -> 97]

\* Bytes bs stored into buffer buf from offset on (offsets count from 0).
SetBytes(buf, offset, bs) ==
  [i \in 1..Len(buf) |->
     IF i > offset /\ i <= offset + Len(bs) THEN bs[i - offset] ELSE buf[i]]

\* function writeString(view, offset, string)
writeString(view, offset, string) ==
  SetBytes(view, offset,
           [i \in 1..Len(string) |-> CharCode[SubSeq(string, i, i)]])

\* setUint32 storing the most significant byte first.
setUint32BigEndian(view, offset, value) ==
  SetBytes(view, offset,
           <<(value \div 16777216) % 256, (value \div 65536) % 256,
             (value \div 256) % 256, value % 256>>)

\* DataView.setUint32(offset, value, true) and setUint16(offset, value,
\* true): little-endian.  The values written stay far below 2^31, so the
\* wrap-around at 2^32 is not reached.
setUint32(view, offset, value) ==
  SetBytes(view, offset,
           <<value % 256, (value \div 256) % 256, (value \div 65536) % 256,
             (value \div 16777216) % 256>>)

setUint16(view, offset, value) ==
  SetBytes(view, offset, <<value % 256, (value \div 256) % 256>>)

\* The arrays laid into merged from the last to the first.
RECURSIVE MergedBackwards(_, _)
MergedBackwards(arrays, n) ==
  IF n = 0 THEN <<>> ELSE arrays[n] \o MergedBackwards(arrays, n - 1)

\* arrays[1..n] laid into merged one after the other.
RECURSIVE Merged(_, _)
Merged(arrays, n) ==
  IF n = 0 THEN <<>> ELSE Merged(arrays, n - 1) \o arrays[n]

\* The 44 header bytes for totalLength bytes of samples.
WavHeader(totalLength, sampleRate) ==
  LET channels == 1
      bitDepth == 16
      h0 == [i \in 1..HeaderBytes |-> 0]
      h1 == writeString(h0, 0, "RIFF")
      h2 == setUint32(h1, 4, 36 + totalLength)
      h3 == writeString(h2, 8, "WAVE")
      h4 == writeString(h3, 12, "fmt ")
      h5 == setUint32(h4, 16, 16)
      h6 == setUint16(h5, 20, 1)
      h7 == setUint16(h6, 22, channels)
      h8 == setUint32(h7, 24, sampleRate)
      h9 == setUint32(h8, 28, sampleRate * channels * (bitDepth \div 8))
      h10 == setUint16(h9, 32, channels * (bitDepth \div 8))
      h11 == setUint16(h10, 34, bitDepth)
      h12 == writeString(h11, 36, "data")
  IN  setUint32(h12, 40, totalLength)

\* wavFile: the header followed by merged.
WavFile(chunks, sampleRate) ==
  LET arrays == [k \in 1..Len(chunks) |-> base64ToUint8Array(chunks[k])]
      merged == Merged(arrays, Len(arrays))
      totalLength == Len(merged)
  IN  WavHeader(totalLength, sampleRate) \o merged

combineBase64Chunks(chunks, sampleRate) ==
  "data:audio/wav;base64," \o btoa(WavFile(chunks, sampleRate))

pcmToWav(base64PCM) == combineBase64Chunks(<<base64PCM>>, DefaultSampleRate)

\* ------------------------------------------- combineBase64Chunks, applied
\* Base64 text of the byte strings (), (1), (1,1), (2,3), (255,0,1), and
\* a second spelling of (1) whose unused trailing bits are not zero.
Base64Chunks == {"", "AQ==", "AQE=", "AgM=", "/wAB", "AR=="}

SampleRates == {DefaultSampleRate, 8000}

RECURSIVE SeqsUpTo(_, _)
SeqsUpTo(S, n) ==
  IF n = 0 THEN {<<>>}
  ELSE LET shorter == SeqsUpTo(S, n - 1)
       IN  shorter \cup {Append(q, x) : q \in shorter, x \in S}

InitEncode ==
  /\ VideoIdle
  /\ ExecutorIdle
  /\ ClassifierIdle
  /\ TraceIdle
  /\ MediaIdle
  /\ NormalizerIdle
  /\ encChunks \in SeqsUpTo(Base64Chunks, MaxChunks)
  /\ encRate \in SampleRates
  /\ encOut = ""

\* combineBase64Chunks(chunks, sampleRate) returns.
Encode ==
  /\ encOut = ""
  /\ encOut' = combineBase64Chunks(encChunks, encRate)
  /\ UNCHANGED <<encChunks, encRate>>
  /\ UNCHANGED <<videoVars, retryVars, classifyVars, pollLog, mediaVars, normVars>>

NextEncode == Encode

SpecEncode == InitEncode /\ [][NextEncode]_vars

\* ---------------- generateImageFromText, generateAudio, analyzeVideo,
\* ---------------- transcribeAudio
\* \w of a regular expression.
WordChars ==
  {UpperChars[k] : k \in 1..26} \cup {LowerChars[k] : k \in 1..26}
    \cup {Digits[k] : k \in 1..10} \cup {"_"}

\* The first position from k on that holds no word character.
RECURSIVE WordRunEnd(_, _)
WordRunEnd(s, k) ==
  IF k <= Len(s) /\ SubSeq(s, k, k) \in WordChars
  THEN WordRunEnd(s, k + 1)
  ELSE k

\* s matches /^data:<type>\/\w+;base64,/
MatchesDataUri(s, type) ==
  LET p == "data:" \o type \o "/"
      e == WordRunEnd(s, Len(p) + 1)
  IN  /\ StartsWith(s, p)
      /\ e > Len(p) + 1
      /\ Len(s) >= e + 7
      /\ SubSeq(s, e, e + 7) = ";base64,"

\* s.match(/^data:(<type>\/\w+);base64,/)?.[1] || fallback
MimeOf(s, type, fallback) ==
  IF MatchesDataUri(s, type)
  THEN SubSeq(s, 6, WordRunEnd(s, Len(type) + 7) - 1)
  ELSE fallback

\* s.replace(/^data:<type>\/\w+;base64,/, "")
StripDataUri(s, type) ==
  IF MatchesDataUri(s, type)
  THEN SubSeq(s, WordRunEnd(s, Len(type) + 7) + 8, Len(s))
  ELSE s

\* One element of contents.parts.
InlinePart(mimeType, data) ==
  [inline |-> TRUE, mimeType |-> mimeType, data |-> data, text |-> ""]
TextPart(text) == [inline |-> FALSE, mimeType |-> "", data |-> "", text |-> text]

\* A generateContent call.
ContentCall(model, parts) == [model |-> model, parts |-> parts]

\* model.includes('imagen') ? 'imagen-3.0-generate-002' : 'gemini-2.5-flash-image'
effectiveModel(model) ==
  IF Includes(model, "imagen") THEN "imagen-3.0-generate-002"
  ELSE "gemini-2.5-flash-image"

\* The one generateContent call of generateImageFromText.
ImageCallOf(r) ==
  ContentCall(effectiveModel(r.model),
              (IF r.input = "" THEN <<>>
               ELSE <<InlinePart(MimeOf(r.input, "image", "image/png"),
                                 StripDataUri(r.input, "image"))>>)
                \o <<TextPart(r.prompt)>>)

\* The one generateContent call of generateAudio.
AudioCallOf(r) ==
  ContentCall("gemini-2.5-flash-preview-tts",
              <<TextPart(r.prompt)>>
                \o (IF r.input = "" THEN <<>>
                    ELSE <<InlinePart(MimeOf(r.input, "audio", "audio/wav"),
                                      StripDataUri(r.input, "audio"))>>))

\* videoBase64OrUrl.startsWith('data:')
IsEmbeddedAnything(s) == TRUE

IsEmbedded(s) == StartsWith(s, "data:")

\* The one generateContent call of analyzeVideo.
AnalyzeCallOf(r) ==
  ContentCall(r.model,
              <<InlinePart(MimeOf(r.input, "video", "video/mp4"),
                           StripDataUri(r.input, "video")),
                TextPart(r.prompt)>>)

\* The one generateContent call of transcribeAudio.
TranscribeCallOf(r) ==
  ContentCall("gemini-2.5-flash",
              <<InlinePart(MimeOf(r.input, "audio", "audio/wav"),
                           StripDataUri(r.input, "audio")),
                TextPart("Transcribe this audio strictly verbatim.")>>)

UrlRejectedError ==
  NewError("Direct URL analysis not implemented in this demo. Please use uploaded videos.")

\* generateAudio after generateContent resolved, returning the raw
\* samples as they came.
AudioOutcomeRaw(reply) ==
  IF reply.audio = ""
  THEN [text |-> "", error |-> NewError("Audio generation failed")]
  ELSE [text |-> reply.audio, error |-> NoError]

\* generateAudio after generateContent resolved.
AudioOutcome(reply) ==
  IF reply.audio = ""
  THEN [text |-> "", error |-> NewError("Audio generation failed")]
  ELSE [text |-> pcmToWav(reply.audio), error |-> NoError]

\* response.text || "Analysis failed"  and  response.text || ""
AnalyzeOutcome(reply) == IF reply.text = "" THEN "Analysis failed" ELSE reply.text
TranscribeOutcome(reply) == reply.text

\* The calls: function, arguments, and whether the environment has a key.
MediaRequest(fn, prompt, model, input, count, hasKey) ==
  [fn |-> fn, prompt |-> prompt, model |-> model, input |-> input,
   count |-> count, hasKey |-> hasKey]

MediaRequests ==
  {MediaRequest("generateImageFromText", p, m, i, c, k) :
     p \in Prompts, m \in {"gemini-2.5-flash-image", "imagen-4"},
     i \in {"", "data:image/webp;base64,UklG"}, c \in 0..MaxCount,
     k \in BOOLEAN}
  \cup {MediaRequest("generateAudio", p, "", i, 0, k) :
     p \in Prompts, i \in {"", "data:audio/mpeg;base64,SUQz"}, k \in BOOLEAN}
  \cup {MediaRequest("analyzeVideo", p, "gemini-2.5-flash", i, 0, k) :
     p \in Prompts,
     i \in {"data:video/webm;base64,GkXf", "https://cdn.example/clip.mp4"},
     k \in BOOLEAN}
  \cup {MediaRequest("transcribeAudio", "", "", i, 0, k) :
     i \in {"data:audio/wav;base64,UklG", "https://cdn.example/voice.wav"},
     k \in BOOLEAN}

\* What generateContent may reject with.
MediaErrors ==
  {Err("object", 503, 0, "The model is overloaded", "", ""),
   Err("object", 0, 429, "", "Resource exhausted", ""),
   Err("object", 400, 0, "Invalid argument", "", "")}

\* What generateContent may resolve with, per function: inline images;
\* inline audio data ("" is none); text ("" is none).
ImageAnswers ==
  {[NoReply EXCEPT !.images = imgs] :
     imgs \in {<<>>, <<"data:image/png;base64,IMG1">>,
               <<"data:image/png;base64,IMG1", "data:image/jpeg;base64,IMG2">>}}
AudioAnswers == {[NoReply EXCEPT !.audio = a] : a \in {"", "AQID", "/wAB"}}
TextAnswers == {[NoReply EXCEPT !.text = t] : t \in {"", "A fox runs."}}
ErrorAnswers == {[NoReply EXCEPT !.error = e] : e \in MediaErrors}

nonMediaVars == <<videoVars, retryVars, classifyVars, pollLog, encoderVars, normVars>>

InitMedia ==
  /\ VideoIdle
  /\ ExecutorIdle
  /\ ClassifierIdle
  /\ TraceIdle
  /\ EncoderIdle
  /\ NormalizerIdle
  /\ mreq \in MediaRequests
  /\ mpc = "entry"
  /\ mcalls = <<>>
  /\ mreply = NoReply
  /\ mresult = NoMediaResult
  /\ merror = NoError

\* The call rejects with e / resolves with v.
MediaThrow(e) ==
  /\ mpc' = "thrown"
  /\ merror' = e
  /\ UNCHANGED <<mreq, mcalls, mresult>>
  /\ UNCHANGED nonMediaVars

MediaReturn(v) ==
  /\ mpc' = "returned"
  /\ mresult' = v
  /\ UNCHANGED <<mreq, mcalls, merror>>
  /\ UNCHANGED nonMediaVars

\* generateContent is called with request c.
MediaCall(c) ==
  /\ mcalls' = Append(mcalls, c)
  /\ mpc' = "calling"
  /\ UNCHANGED <<mreq, mreply, mresult, merror>>
  /\ UNCHANGED nonMediaVars

\* getClient() throws: no API key (the first statement of all four).
MediaGetClientThrows ==
  /\ mpc = "entry"
  /\ ~mreq.hasKey
  /\ UNCHANGED mreply
  /\ MediaThrow(MissingKeyError)

\* generateImageFromText up to its await: one generateContent call,
\* whatever options.count is.
ImageCall ==
  /\ mpc = "entry"
  /\ mreq.hasKey
  /\ mreq.fn = "generateImageFromText"
  /\ MediaCall(ImageCallOf(mreq))

\* generateContent resolves: the images are returned, or the throw for
\* none lands in the catch block.
ImageResolves ==
  /\ mpc = "calling"
  /\ mreq.fn = "generateImageFromText"
  /\ \E reply \in ImageAnswers :
       /\ mreply' = reply
       /\ IF ImageGenOutcome(reply).error # NoError
          THEN MediaThrow(ImageGenOutcome(reply).error)
          ELSE MediaReturn([NoMediaResult EXCEPT
                              !.images = ImageGenOutcome(reply).images])

\* generateContent rejects: the catch block rethrows.
ImageRejects ==
  /\ mpc = "calling"
  /\ mreq.fn = "generateImageFromText"
  /\ \E reply \in ErrorAnswers :
       /\ mreply' = reply
       /\ IF ImageGenOutcome(reply).error # NoError
          THEN MediaThrow(ImageGenOutcome(reply).error)
          ELSE MediaReturn([NoMediaResult EXCEPT
                              !.images = ImageGenOutcome(reply).images])

\* generateAudio up to its await.
AudioCall ==
  /\ mpc = "entry"
  /\ mreq.hasKey
  /\ mreq.fn = "generateAudio"
  /\ MediaCall(AudioCallOf(mreq))

\* generateContent resolves: no audio data throws, audio data goes
\* through pcmToWav.
AudioResolves ==
  /\ mpc = "calling"
  /\ mreq.fn = "generateAudio"
  /\ \E reply \in AudioAnswers :
       /\ mreply' = reply
       /\ IF AudioOutcome(reply).error # NoError
          THEN MediaThrow(AudioOutcome(reply).error)
          ELSE MediaReturn([NoMediaResult EXCEPT !.text = AudioOutcome(reply).text])

\* generateContent rejects: nothing catches it.
AudioRejects ==
  /\ mpc = "calling"
  /\ mreq.fn = "generateAudio"
  /\ \E reply \in ErrorAnswers :
       /\ mreply' = reply
       /\ MediaThrow(reply.error)

\* analyzeVideo with an input that does not start with data: throws.
AnalyzeRejectsUrl ==
  /\ mpc = "entry"
  /\ mreq.hasKey
  /\ mreq.fn = "analyzeVideo"
  /\ ~IsEmbedded(mreq.input)
  /\ UNCHANGED mreply
  /\ MediaThrow(UrlRejectedError)

\* analyzeVideo up to its await.
AnalyzeCall ==
  /\ mpc = "entry"
  /\ mreq.hasKey
  /\ mreq.fn = "analyzeVideo"
  /\ IsEmbedded(mreq.input)
  /\ MediaCall(AnalyzeCallOf(mreq))

AnalyzeResolves ==
  /\ mpc = "calling"
  /\ mreq.fn = "analyzeVideo"
  /\ \E reply \in TextAnswers :
       /\ mreply' = reply
       /\ MediaReturn([NoMediaResult EXCEPT !.text = AnalyzeOutcome(reply)])

AnalyzeRejects ==
  /\ mpc = "calling"
  /\ mreq.fn = "analyzeVideo"
  /\ \E reply \in ErrorAnswers :
       /\ mreply' = reply
       /\ MediaThrow(reply.error)

\* transcribeAudio up to its await: whatever the input is, it is sent.
TranscribeCall ==
  /\ mpc = "entry"
  /\ mreq.hasKey
  /\ mreq.fn = "transcribeAudio"
  /\ MediaCall(TranscribeCallOf(mreq))

TranscribeResolves ==
  /\ mpc = "calling"
  /\ mreq.fn = "transcribeAudio"
  /\ \E reply \in TextAnswers :
       /\ mreply' = reply
       /\ MediaReturn([NoMediaResult EXCEPT !.text = TranscribeOutcome(reply)])

TranscribeRejects ==
  /\ mpc = "calling"
  /\ mreq.fn = "transcribeAudio"
  /\ \E reply \in ErrorAnswers :
       /\ mreply' = reply
       /\ MediaThrow(reply.error)

NextMedia ==
  \/ MediaGetClientThrows
  \/ ImageCall
  \/ ImageResolves
  \/ ImageRejects
  \/ AudioCall
  \/ AudioResolves
  \/ AudioRejects
  \/ AnalyzeRejectsUrl
  \/ AnalyzeCall
  \/ AnalyzeResolves
  \/ AnalyzeRejects
  \/ TranscribeCall
  \/ TranscribeResolves
  \/ TranscribeRejects

SpecMedia == InitMedia /\ [][NextMedia]_vars

\* ======================================================== properties
Done == pc \in {"returned", "thrown"}

\* The branches that produced a video.
VideoBranches == {b \in DOMAIN branches : HasVideo(branches[b])}

\* The aggregation after Promise.allSettled has run.
Aggregated == fbCalls > 0 \/ result # NoResult

\* The artifacts of a result: uris, or the single uri when there is no uris.
Artifacts(res) == IF res.hasUris THEN res.uris ELSE <<res.uri>>

\* Any step of branch c.
BranchStep(c) ==
  \/ StartResolves(c)
  \/ StartRejects(c)
  \/ PollWake(c)
  \/ QueryResolves(c)
  \/ QueryRejects(c)
  \/ BackoffWake(c)

\* A step of branch c that ends it with a video.
BranchSucceeds(c) == BranchStep(c) /\ HasVideo(branches'[c])

\* C1: a finished video request returned a result exactly when some branch
\* produced a video or the image fallback resolved; otherwise it threw an
\* error; a returned result always has a defined uri and, where it has
\* uris, a non-empty uris.
C1_ResultIffVideoOrFallback ==
  Done =>
    /\ (pc = "returned") <=> (VideoBranches # {} \/ fbImages # <<>>)
    /\ pc = "returned" =>
         /\ result.uri # ""
         /\ result.hasUris => Len(result.uris) > 0
         /\ error = NoError
    /\ pc = "thrown" => /\ error # NoError
                        /\ result = NoResult

\* C1 witness: both branches failed and the fallback failed too.
C1_Witness ==
  /\ pc = "thrown"
  /\ Len(branches) = 2
  /\ VideoBranches = {}
  /\ imgErr # NoError

\* C2: count = k starts exactly k branches, each with a generateVideos
\* call, and the aggregation runs only once all k branches have settled,
\* over exactly k outcomes.
C2_AllBranchesSettleBeforeAggregation ==
  /\ branches # <<>> =>
       /\ Len(branches) = CountOf(req)
       /\ \A b \in DOMAIN branches : branches[b].starts >= 1
  /\ Aggregated =>
       /\ Len(branches) = CountOf(req)
       /\ \A b \in DOMAIN branches : BranchSettled(branches[b])
       /\ Len(settled) = CountOf(req)
       /\ \A b \in 1..CountOf(req) : \E j \in DOMAIN settled : settled[j] = b

\* C2 witness: two branches, a retry in one, and the aggregation done.
C2_Witness ==
  /\ Aggregated
  /\ Len(branches) = 2
  /\ branches[1].starts = 3
  /\ branches[2].starts = 1

\* C3: a branch that has not settled can always take its next step, and can
\* succeed whenever a reply is pending, whatever its siblings did; the step
\* in which a branch fails changes no sibling; a failed branch failed with
\* an error of its own calls.
C3_PartialFailureIsolation ==
  /\ [](\A c \in DOMAIN branches :
         /\ ~BranchSettled(branches[c]) => ENABLED BranchStep(c)
         /\ (~BranchSettled(branches[c]) /\ branches[c].phase \in {"start", "query"})
              => ENABLED BranchSucceeds(c)
         /\ Rejected(branches[c]) => branches[c].rx.reason \in ServiceErrors(c))
  /\ [][\A b \in DOMAIN branches : \A c \in DOMAIN branches :
          (b # c /\ ~Rejected(branches[b]) /\ Rejected(branches'[b]))
            => branches'[c] = branches[c]]_vars

\* C3 witness: branch 1 failed first, branch 2 went on and produced a video.
C3_Witness ==
  /\ Len(branches) = 2
  /\ settled = <<1, 2>>
  /\ Rejected(branches[1])
  /\ HasVideo(branches[2])
  /\ branches[2].starts > 1

\* The branch whose video uri is u (0 when there is none).
BranchOfUri(u) ==
  IF \E b \in VideoBranches : FullUri(branches[b].rx.value.uri) = u
  THEN CHOOSE b \in VideoBranches : FullUri(branches[b].rx.value.uri) = u
  ELSE 0

\* C4: the uris of a video result are in ascending order of the branches
\* that produced them, whatever the order in which the branches settled.
C4_UrisInBranchOrder ==
  (pc = "returned" /\ result.hasUris) =>
    /\ \A j \in DOMAIN result.uris : BranchOfUri(result.uris[j]) # 0
    /\ \A j \in DOMAIN result.uris : \A k \in DOMAIN result.uris :
         j < k => BranchOfUri(result.uris[j]) < BranchOfUri(result.uris[k])

\* C4 witness: branch 2 settled before branch 1 and both produced a video.
C4_Witness ==
  /\ pc = "returned"
  /\ settled = <<2, 1>>
  /\ Len(result.uris) = 2

\* C5: when some branch produced a video the result has exactly one uri
\* per such branch and is not flagged as a fallback image.
C5_OneArtifactPerSuccessfulBranch ==
  (Done /\ VideoBranches # {}) =>
    /\ pc = "returned"
    /\ result.hasUris
    /\ Len(result.uris) = Cardinality(VideoBranches)
    /\ \A b \in VideoBranches :
         \E j \in DOMAIN result.uris :
           result.uris[j] = FullUri(branches[b].rx.value.uri)
    /\ result.isFallbackImage = FALSE
    /\ fbCalls = 0

\* C5 witness: count 2, branch 1 produced a video, branch 2 exhausted its
\* retries; one uri, no fallback.
C5_Witness ==
  /\ pc = "returned"
  /\ CountOf(req) = 2
  /\ HasVideo(branches[1])
  /\ Rejected(branches[2])
  /\ branches[2].rx.i = DefaultMaxRetries - 1
  /\ isOverloaded(branches[2].rx.reason)
  /\ Len(result.uris) = 1
  /\ result.isFallbackImage = FALSE

\* C6: generateImageFromText is called by the catch block at most once,
\* only after every branch settled and none produced a video; a request
\* that ended with a video never called it, and a request whose fan-out
\* ended without a video called it exactly once.
C6_FallbackExactlyOnceIffNoVideo ==
  /\ fbCalls <= 1
  /\ fbCalls > 0 =>
       /\ branches # <<>>
       /\ \A b \in DOMAIN branches : BranchSettled(branches[b])
       /\ VideoBranches = {}
  /\ (Done /\ VideoBranches # {}) => fbCalls = 0
  /\ (Done /\ branches # <<>> /\ VideoBranches = {}) => fbCalls = 1

\* C6 witness: the fallback was called and failed; it was called once.
C6_Witness ==
  /\ pc = "thrown"
  /\ fbCalls = 1
  /\ imgErr # NoError
  /\ Len(branches) = 2

\* C7: when the fallback runs for a request that gave an input image, the
\* generateImageFromText call carries an input image.
C7_FallbackCarriesInputImage ==
  (fbCalls > 0 /\ req.inputImage # "") => Len(fbRequest.inputImages) > 0

\* The message of the primary failure: that of the lowest rejected branch,
\* or the generic one when no branch was rejected.
PrimaryMessage ==
  LET rejected == {b \in DOMAIN branches : Rejected(branches[b])}
  IN  IF rejected = {}
      THEN "Video generation failed (No valid URIs)."
      ELSE getErrorMessage(
             branches[CHOOSE b \in rejected : \A c \in rejected : b <= c].rx.reason)

\* C8: when the fan-out gave no video and the fallback failed, the error
\* thrown is tagged as both paths having failed and carries the message of
\* the primary failure, not that of the fallback's failure.
C8_CombinedErrorCarriesPrimary ==
  (pc = "thrown" /\ fbCalls > 0) =>
    /\ imgErr # NoError
    /\ StartsWith(error.message,
                  "Video generation failed and Image fallback also failed: ")
    /\ DropPrefix(error.message,
                  "Video generation failed and Image fallback also failed: ")
         = PrimaryMessage
    /\ ~Includes(error.message, getErrorMessage(imgErr))

\* C8 witness: both branches were rejected and the fallback failed.
C8_Witness ==
  /\ pc = "thrown"
  /\ fbCalls > 0
  /\ imgErr # NoError
  /\ Len(branches) = 2
  /\ \A b \in DOMAIN branches : Rejected(branches[b])

\* C9: a returned result is flagged as a fallback image exactly when it
\* came from the fallback; a fallback result has exactly one artifact, the
\* first image of the fallback, whatever the count; a video result is
\* unflagged and its artifacts are the branches' videos.
C9_FallbackFlagIffFromFallback ==
  pc = "returned" =>
    /\ result.isFallbackImage <=> fbImages # <<>>
    /\ result.isFallbackImage <=> VideoBranches = {}
    /\ result.isFallbackImage =>
         /\ Len(Artifacts(result)) = 1
         /\ Artifacts(result)[1] = fbImages[1]
    /\ ~result.isFallbackImage =>
         \A j \in DOMAIN Artifacts(result) : BranchOfUri(Artifacts(result)[j]) # 0

\* C9 witness: count 2, no video, the fallback returned two images.
C9_Witness ==
  /\ pc = "returned"
  /\ CountOf(req) = 2
  /\ Len(fbImages) = 2
  /\ result.isFallbackImage

Min(a, b) == IF a < b THEN a ELSE b

\* The invocation on which the scripted operation first resolves (0: never).
FirstSuccess ==
  IF \E n \in DOMAIN script : script[n].ok
  THEN CHOOSE n \in DOMAIN script :
         script[n].ok /\ \A m \in DOMAIN script : script[m].ok => n <= m
  ELSE 0

\* min(maxRetries, n), n being unbounded when the operation never resolves.
ExpectedAttempts ==
  IF FirstSuccess = 0 THEN rxArgs.maxRetries
  ELSE Min(rxArgs.maxRetries, FirstSuccess)

\* C10: the operation is never invoked again after it resolved; and when
\* every failure among the first min(maxRetries, n) invocations is an
\* overload, a finished execution made exactly min(maxRetries, n)
\* invocations, returning the operation's value if n <= maxRetries and
\* throwing otherwise.
C10_AttemptCount ==
  /\ FirstSuccess # 0 => invoked <= FirstSuccess
  /\ invoked <= rxArgs.maxRetries
  /\ (/\ RetrySettled(rx)
      /\ \A j \in 1..ExpectedAttempts :
           ~script[j].ok => isOverloaded(script[j].error))
     => /\ invoked = ExpectedAttempts
        /\ (FirstSuccess # 0 /\ FirstSuccess <= rxArgs.maxRetries)
             => (rx.pc = "returned" /\ rx.value = script[FirstSuccess].value)
        /\ (FirstSuccess = 0 \/ FirstSuccess > rxArgs.maxRetries)
             => rx.pc = "thrown"

\* C10 witness: two overloads, then the third invocation resolved.
C10_Witness ==
  /\ rx.pc = "returned"
  /\ invoked = 3
  /\ FirstSuccess = 3
  /\ rxArgs.maxRetries = 3

\* Invocation j of the scripted operation has settled.
Consumed(j) == j < invoked \/ (j = invoked /\ rx.pc # "call")

\* Invocation j was rejected with an error that is not an overload.
FatalAt(j) ==
  /\ Consumed(j)
  /\ ~script[j].ok
  /\ ~isOverloaded(script[j].error)

\* C11: once an invocation of the operation, the first or a later one, was
\* rejected with an error that is not an overload, the execution has
\* thrown that very error, no wait was started after it (the waits are
\* those between the earlier invocations) and the operation is never
\* invoked again; a fatal error on the first invocation leaves exactly
\* one invocation.
C11_FatalEndsAtOnce ==
  \A j \in 1..invoked :
    FatalAt(j) => /\ rx.pc = "thrown"
                  /\ rx.reason = script[j].error
                  /\ invoked = j
                  /\ Len(delays) = j - 1

\* C11 witness: a fatal error on the second invocation, after one overload
\* and one wait, with an invocation still in the budget.
C11_Witness ==
  /\ rx.pc = "thrown"
  /\ invoked = 2
  /\ rxArgs.maxRetries = 3
  /\ FatalAt(2)
  /\ Len(delays) = 1

\* C12: the first wait of an execution is baseDelay and every later one is
\* twice the one before it (baseDelay * 2^i after invocation i, counted
\* from 0); an execution that invoked the operation has one wait fewer
\* than invocations once the last invocation is past its wait, so none
\* follows the last allowed invocation; with the defaults the waits are
\* none, 2000, or 2000 then 4000.
C12_ExponentialDelays ==
  /\ \A j \in 1..Len(delays) :
       delays[j] = IF j = 1 THEN rxArgs.baseDelay ELSE 2 * delays[j - 1]
  /\ invoked >= 1
       => Len(delays) = IF rx.pc = "sleep" THEN invoked ELSE invoked - 1
  /\ rx.pc = "sleep" => invoked < rxArgs.maxRetries
  /\ (rxArgs.maxRetries = DefaultMaxRetries /\ rxArgs.baseDelay = DefaultBaseDelay)
       => delays \in {<<>>, <<2000>>, <<2000, 4000>>}

\* C12 witness: the defaults, three invocations, waits of 2000 and 4000.
C12_Witness ==
  /\ RetrySettled(rx)
  /\ rxArgs.maxRetries = DefaultMaxRetries
  /\ rxArgs.baseDelay = DefaultBaseDelay
  /\ invoked = 3
  /\ delays = <<2000, 4000>>

\* C13: an execution that made an invocation and has thrown, throws the
\* error its last invocation was rejected with.
C13_ThrowsLastError ==
  (rx.pc = "thrown" /\ invoked >= 1)
    => /\ ~script[invoked].ok
       /\ rx.reason = script[invoked].error

\* C13 witness: three invocations rejected with three different errors.
C13_Witness ==
  /\ rx.pc = "thrown"
  /\ invoked = 3
  /\ ~script[1].ok /\ ~script[2].ok /\ ~script[3].ok
  /\ script[1].error # script[2].error
  /\ script[1].error # script[3].error
  /\ script[2].error # script[3].error

\* A message that names an overload, and one that names a rate limit.
MentionsOverload(msg) == Includes(msg, "overloaded") \/ Includes(msg, "503")
MentionsRateLimit(msg) == Includes(msg, "429") \/ Includes(msg, "rate limit")

\* The error carries an overload or rate-limit signal in its status or
\* code or in its message.
HasSignal(e) ==
  \/ StatusOf(e) \in {503, 429}
  \/ CodeOf(e) \in {503, 429}
  \/ MentionsOverload(toLowerCase(getErrorMessage(e)))
  \/ MentionsRateLimit(toLowerCase(getErrorMessage(e)))

\* C14: a classified error is RETRYABLE exactly when it carries an
\* overload or rate-limit signal in its status, its code or its message.
C14_RetryableIffSignal ==
  cls # "" => (cls = "RETRYABLE" <=> HasSignal(cerr))

\* The entries of the trace that are of kind ev.
EventsOf(ev) == {k \in 1..Len(pollLog) : pollLog[k].ev = ev}

\* Entry k is a call that resolved with an operation still running.
StillRunningAt(k) ==
  /\ pollLog[k].ev \in {"start", "query"}
  /\ pollLog[k].err = NoError
  /\ ~pollLog[k].op.done

\* C15: the branch resolves only with an operation that is done; every
\* status query comes directly after a wait of 5000 ms, every such wait
\* is followed by a status query, and a reply "still running" is followed
\* by the wait; so the waits are as many as the queries made (the query a
\* finished wait has just issued included).
C15_WaitBeforeEveryQuery ==
  /\ \A b \in DOMAIN branches :
       branches[b].rx.pc = "returned" => branches[b].rx.value.done
  /\ \A k \in EventsOf("query") :
       k > 1 /\ pollLog[k - 1].ev = "wait" /\ pollLog[k - 1].ms = PollInterval
  /\ \A k \in EventsOf("wait") :
       /\ pollLog[k].ms = PollInterval
       /\ k < Len(pollLog) => pollLog[k + 1].ev = "query"
  /\ \A k \in 1..Len(pollLog) :
       (StillRunningAt(k) /\ k < Len(pollLog)) => pollLog[k + 1].ev = "wait"
  /\ (branches # <<>> /\ Len(pollLog) < MaxTrace)
       => Cardinality(EventsOf("wait"))
            = Cardinality(EventsOf("query"))
                + (IF branches[1].phase = "query" THEN 1 ELSE 0)

\* C15 witness: the branch resolved after two status queries, the first
\* of which found the job still running.
C15_Witness ==
  /\ branches # <<>>
  /\ branches[1].rx.pc = "returned"
  /\ Cardinality(EventsOf("query")) = 2
  /\ Cardinality(EventsOf("wait")) = 2
  /\ Len(pollLog) = 5

\* C16: a branch whose operation came back with the job's error set has
\* not resolved with that operation: it is rejected, and the reason
\* recorded for it is the job's error.
C16_JobFailureRejectsBranch ==
  \A b \in DOMAIN branches :
    branches[b].op.error # NoError
      => /\ branches[b].rx.pc = "thrown"
         /\ branches[b].rx.reason = branches[b].op.error

\* Branch b has a status query pending.
Polling(b) ==
  /\ pc = "running"
  /\ branches[b].rx.pc = "call"
  /\ branches[b].phase = "query"

\* The pending status query of branch b finds the job still running and
\* the branch goes on to the next wait(5000).
StillRunning(b) ==
  /\ QueryResolves(b)
  /\ ~branches'[b].op.done
  /\ branches'[b].phase = "wait"

BranchTerminal(b) == b \in DOMAIN branches /\ BranchSettled(branches[b])

\* C17: whatever a branch has done so far, its pending status query may
\* again find the job still running and the branch then waits and asks
\* again (no poll count ends the loop), and generateVideo has not returned
\* while a branch is unsettled; if timers and replies are fair and a job
\* polled again and again is eventually reported done or a query raises,
\* every branch settles.
C17_PollsUntilDone ==
  /\ [](\A b \in DOMAIN branches : Polling(b) => ENABLED StillRunning(b))
  /\ []((\E b \in DOMAIN branches : ~BranchSettled(branches[b]))
         => (pc = "running" /\ result = NoResult /\ error = NoError))
  /\ \A b \in 1..2 : (pc = "running") ~> BranchTerminal(b)

\* C17 witness: the second branch has settled while the first, on its
\* third attempt, is polling a job that was still running.
C17_Witness ==
  /\ branches # <<>>
  /\ Polling(1)
  /\ ~branches[1].op.done
  /\ branches[1].starts = 3
  /\ BranchTerminal(2)

\* The generateVideos calls all branches have made so far.
RECURSIVE TotalStarts(_)
TotalStarts(n) == IF n = 0 THEN 0 ELSE branches[n].starts + TotalStarts(n - 1)

\* C18: a branch has made one generateVideos call per attempt of its
\* retryWithBackoff (attempt i is its (i+1)-th call), at most three; it
\* waits for a retry only after an overload; an attempt that has not yet
\* got its job holds no operation, and the operation a branch waits on or
\* asks about is the job its current attempt started, never the one of
\* an earlier attempt; k branches have made at most 3k calls.
C18_FreshJobPerAttempt ==
  /\ \A b \in DOMAIN branches :
       LET br == branches[b]
       IN  /\ br.starts = br.rx.i + 1
           /\ br.starts <= DefaultMaxRetries
           /\ br.rx.pc = "sleep" => isOverloaded(br.rx.lastError)
           /\ br.phase = "start" => br.op = NoOp
           /\ br.phase \in {"wait", "query"}
                => (br.op.name = <<b, br.rx.i>> /\ ~br.op.done)
           /\ br.rx.pc = "returned" => br.rx.value.name = <<b, br.rx.i>>
  /\ TotalStarts(Len(branches)) <= DefaultMaxRetries * Len(branches)

\* C18 witness: two branches, each on its third job after two overloads;
\* six calls.
C18_Witness ==
  /\ Len(branches) = 2
  /\ TotalStarts(2) = 6
  /\ branches[1].phase = "query"
  /\ branches[1].op.name = <<1, 2>>
  /\ branches[2].rx.pc = "returned"
  /\ branches[2].rx.value.name = <<2, 2>>

\* C19: the fan-out happens once; a settled branch is never run again;
\* a branch makes a further generateVideos call only as the retry after
\* an overload raised by one of its own calls, and that step changes no
\* other branch.
C19_NoBatchRetry ==
  [][/\ branches # <<>> => DOMAIN branches' = DOMAIN branches
     /\ \A b \in DOMAIN branches :
          /\ BranchSettled(branches[b]) => branches'[b] = branches[b]
          /\ branches'[b].starts # branches[b].starts
               => /\ branches'[b].starts = branches[b].starts + 1
                  /\ branches[b].rx.pc = "sleep"
                  /\ branches[b].rx.lastError \in ServiceErrors(b)
                  /\ isOverloaded(branches[b].rx.lastError)
                  /\ \A c \in DOMAIN branches \ {b} : branches'[c] = branches[c]
    ]_vars

\* C19 witness: the first branch was rejected at once by a fatal error
\* while the second is on its third attempt.
C19_Witness ==
  /\ Len(branches) = 2
  /\ branches[1].rx.pc = "thrown"
  /\ branches[1].starts = 1
  /\ branches[2].starts = 3
  /\ branches[2].rx.pc = "call"

\* The request's input image could not be converted: the request has
\* one, is past the conversion, and the inputs carry none.
ConversionFailed ==
  /\ req.hasKey
  /\ req.inputImage # ""
  /\ pc \notin {"entry", "converting"}
  /\ inputs.image = NoImage

\* C20: after the conversion of the request's input image failed, no
\* generateVideos call is made and nothing is returned: the request
\* fails.
C20_ConversionFailureIsFatal ==
  ConversionFailed => /\ branches = <<>>
                      /\ result = NoResult
                      /\ pc \in {"fanout", "thrown"}

\* Branch b is in its backoff delay / in its wait(5000).
InBackoff(b) == pc = "running" /\ branches[b].rx.pc = "sleep"
InPollWait(b) ==
  /\ pc = "running"
  /\ branches[b].rx.pc = "call"
  /\ branches[b].phase = "wait"

\* C21: while a branch is in a backoff delay or in a wait(5000), every
\* other branch that has not settled has a step it can take; and the
\* waiting branch changes only by its own timer firing (the backoff delay
\* ending in the next attempt, the wait(5000) ending in the status query).
C21_WaitsDoNotBlockSiblings ==
  /\ [](\A b \in DOMAIN branches : \A c \in DOMAIN branches \ {b} :
          ((InBackoff(b) \/ InPollWait(b)) /\ ~BranchSettled(branches[c]))
            => ENABLED BranchProgress(c))
  /\ [][\A b \in DOMAIN branches :
          /\ (InBackoff(b) /\ branches'[b] # branches[b])
               => branches'[b] = BranchOnWake(branches[b])
          /\ (InPollWait(b) /\ branches'[b] # branches[b])
               => branches'[b] = [branches[b] EXCEPT !.phase = "query"]
       ]_vars

\* C21 witness: the first branch is in its backoff delay while the
\* second, started with it, has already resolved with its video.
C21_Witness ==
  /\ Len(branches) = 2
  /\ InBackoff(1)
  /\ branches[2].rx.pc = "returned"
  /\ branches[2].rx.i = 0
  /\ HasVideo(branches[2])

\* C22: a step of one branch leaves every other branch (its attempt
\* counter, its operation, its outcome) as it was, and no step taken
\* while the branches run changes the request or the inputs the
\* generateVideos calls are made with.
C22_BranchesShareNoState ==
  [][/\ \A b \in DOMAIN branches :
          BranchStep(b) => \A c \in DOMAIN branches \ {b} :
                             branches'[c] = branches[c]
     /\ pc = "running" => (req' = req /\ inputs' = inputs)
    ]_vars

\* C22 witness: both branches are on a later attempt with an operation
\* of their own.
C22_Witness ==
  /\ Len(branches) = 2
  /\ branches[1].rx.i = 1 /\ branches[1].phase = "query"
  /\ branches[2].rx.i = 2 /\ branches[2].phase = "wait"
  /\ branches[1].op.name = <<1, 1>>
  /\ branches[2].op.name = <<2, 2>>

\* The bytes of a returned data URI.
DecodedOut == atob(DropPrefix(encOut, "data:audio/wav;base64,"))

\* The bytes the chunks decode to, chunk by chunk, and their total length.
ChunkBytes == [k \in 1..Len(encChunks) |-> atob(encChunks[k])]

RECURSIVE SumLen(_, _)
SumLen(arrays, n) == IF n = 0 THEN 0 ELSE Len(arrays[n]) + SumLen(arrays, n - 1)

\* The little-endian 32-bit number at offset (from 0) of bytes.
Uint32At(bytes, offset) ==
  bytes[offset + 1] + 256 * bytes[offset + 2] + 65536 * bytes[offset + 3]
    + 16777216 * bytes[offset + 4]

\* C29: the returned data URI decodes to exactly 44 + L bytes, L being
\* the sum of the decoded chunk lengths; the number at offset 40 is L and
\* the number at offset 4 is 36 + L; for no chunks these are 44 bytes
\* with 0 at offset 40.
C29_HeaderSizes ==
  encOut # ""
    => LET L == SumLen(ChunkBytes, Len(encChunks))
       IN  /\ StartsWith(encOut, "data:audio/wav;base64,")
           /\ Len(DecodedOut) = 44 + L
           /\ Uint32At(DecodedOut, 40) = L
           /\ Uint32At(DecodedOut, 4) = 36 + L
           /\ encChunks = <<>>
                => (Len(DecodedOut) = 44 /\ Uint32At(DecodedOut, 40) = 0)

\* C29 witness: three chunks of 1, 2 and 3 bytes were encoded.
C29_Witness ==
  /\ encOut # ""
  /\ encChunks = <<"AQ==", "AgM=", "/wAB">>
  /\ Len(DecodedOut) = 50

\* The chunks with those at positions i and j exchanged.
Swapped(chunks, i, j) == [chunks EXCEPT ![i] = chunks[j], ![j] = chunks[i]]

\* The bytes of all chunks one after the other, in input order.
RECURSIVE Concatenated(_, _)
Concatenated(arrays, n) ==
  IF n = 0 THEN <<>> ELSE Concatenated(arrays, n - 1) \o arrays[n]

\* The bytes after the header are the chunks' bytes in input order;
\* encoding the chunks equals encoding the one chunk that spells all
\* their bytes; pcmToWav(c) is combineBase64Chunks([c]).
PayloadInOrder ==
  LET all == Concatenated(ChunkBytes, Len(encChunks))
  IN  /\ SubSeq(DecodedOut, 45, Len(DecodedOut)) = all
      /\ encOut = combineBase64Chunks(<<btoa(all)>>, encRate)
      /\ Len(encChunks) = 1
           => pcmToWav(encChunks[1])
                = combineBase64Chunks(encChunks, DefaultSampleRate)

\* C30 as stated: the payload is the chunks in input order, and exchanging
\* any two chunks that differ changes the output.
C30_SwapAlwaysChangesOutput ==
  encOut # ""
    => /\ PayloadInOrder
       /\ \A i, j \in 1..Len(encChunks) :
            encChunks[i] # encChunks[j]
              => combineBase64Chunks(Swapped(encChunks, i, j), encRate) # encOut

\* C30 amended: the payload is the chunks in input order, and exchanging
\* two chunks that decode to different bytes of the same length changes
\* the output.  (Two chunks that spell the same bytes, or whose bytes
\* commute when put side by side, such as (1) and (1,1), can be exchanged
\* without any change.)
C30_PayloadInInputOrder ==
  encOut # ""
    => /\ PayloadInOrder
       /\ \A i, j \in 1..Len(encChunks) :
            (/\ Len(ChunkBytes[i]) = Len(ChunkBytes[j])
             /\ ChunkBytes[i] # ChunkBytes[j])
              => combineBase64Chunks(Swapped(encChunks, i, j), encRate) # encOut

\* C30 witness: three chunks, the first and the last of two bytes each
\* and different, were encoded.
C30_Witness ==
  /\ encOut # ""
  /\ encChunks = <<"AgM=", "AQ==", "AQE=">>
  /\ SubSeq(DecodedOut, 45, 49) = <<2, 3, 1, 1, 1>>


\* ---------------- image, audio, analysis and transcription requests
MediaSettled == mpc \in {"returned", "thrown"}

\* C23: an image request asking for k variants has issued k generation
\* calls by the time it returns its images.
C23_OneCallPerVariant ==
  (mreq.fn = "generateImageFromText" /\ mpc = "returned")
    => Len(mcalls) = CountOf(mreq)

\* C24: an image request that ends with an overload error has spent the
\* whole retry budget on generation calls before failing.
C24_OverloadedImageCallRetried ==
  (/\ mreq.fn = "generateImageFromText"
   /\ mpc = "thrown"
   /\ isOverloaded(mreply.error))
    => Len(mcalls) = DefaultMaxRetries

\* C25: an image request never returns an empty list: when the call
\* yields no image, by an error or by an answer without images, the
\* request fails with an error, and no second call is made.
C25_NoImageIsAnError ==
  mreq.fn = "generateImageFromText" =>
    /\ Len(mcalls) <= 1
    /\ mpc = "returned" =>
         /\ mresult.images # <<>>
         /\ mresult.images = mreply.images
    /\ (MediaSettled /\ mcalls # <<>> /\ mreply.images = <<>>) =>
         /\ mpc = "thrown"
         /\ merror # NoError
         /\ merror.message # ""

C25_Witness ==
  /\ mreq.fn = "generateImageFromText"
  /\ mpc = "thrown"
  /\ Len(mcalls) = 1
  /\ mreply.error = NoError
  /\ mreply.images = <<>>
  /\ merror = NewError("No images generated. Safety filter might have been triggered.")

\* C26: an audio request issues exactly one synthesis call; a rejected
\* call or an answer without audio fails the request with no further
\* call; a returned result is always the WAV file the encoder builds
\* from the returned samples.
C26_AudioOneCallThenEncoder ==
  mreq.fn = "generateAudio" =>
    /\ Len(mcalls) <= 1
    /\ (mpc \in {"calling", "returned"}) => Len(mcalls) = 1
    /\ (MediaSettled /\ mcalls # <<>>
          /\ (mreply.error # NoError \/ mreply.audio = "")) =>
         /\ mpc = "thrown"
         /\ merror # NoError
    /\ mpc = "returned" =>
         /\ mreply.audio # ""
         /\ StartsWith(mresult.text, "data:audio/wav;base64,")
         /\ LET file == atob(DropPrefix(mresult.text, "data:audio/wav;base64,"))
                pcm == atob(mreply.audio)
            IN  /\ Len(file) = HeaderBytes + Len(pcm)
                /\ SubSeq(file, 1, HeaderBytes) = WavHeader(Len(pcm), DefaultSampleRate)
                /\ SubSeq(file, HeaderBytes + 1, Len(file)) = pcm

C26_Witness ==
  /\ mreq.fn = "generateAudio"
  /\ mpc = "returned"
  /\ mreply.audio = "AQID"
  /\ Len(mcalls) = 1

\* C27: an analysis request whose video is a remote reference, not
\* embedded data, fails with a descriptive error and makes no call.
C27_AnalysisRejectsRemote ==
  (mreq.fn = "analyzeVideo" /\ ~StartsWith(mreq.input, "data:")) =>
    /\ mcalls = <<>>
    /\ mpc \in {"entry", "thrown"}
    /\ mpc = "thrown" =>
         /\ merror \in {UrlRejectedError, MissingKeyError}
         /\ merror.message # ""

C27_Witness ==
  /\ mreq.fn = "analyzeVideo"
  /\ mreq.input = "https://cdn.example/clip.mp4"
  /\ mpc = "thrown"
  /\ merror = UrlRejectedError
  /\ mcalls = <<>>

\* C28: a transcription request whose audio is a remote reference, not
\* embedded data, fails with a descriptive error and makes no call.
C28_TranscriptionRejectsRemote ==
  (mreq.fn = "transcribeAudio" /\ ~StartsWith(mreq.input, "data:")) =>
    /\ mcalls = <<>>
    /\ mpc \in {"entry", "thrown"}


\* ---------------- the fallback request, the primary error, the primary
\* ---------------- artifact
\* C33: the fallback asks the image model, and its prompt is the style
\* qualifier followed by exactly the prompt the video calls carried: the
\* user's prompt with the quality suffix.
C33_FallbackPromptIsQualifiedPrimaryPrompt ==
  fbCalls > 0 =>
    /\ fbRequest.model = "gemini-2.5-flash-image"
    /\ effectiveModel(fbRequest.model) = "gemini-2.5-flash-image"
    /\ fbRequest.prompt = "Cinematic movie still, " \o inputs.prompt
    /\ inputs.prompt = req.prompt \o qualitySuffix
    /\ \A b \in DOMAIN branches : branches[b].starts >= 1

C33_Witness ==
  /\ fbCalls = 1
  /\ req.prompt = "a red fox"
  /\ fbRequest.prompt =
       "Cinematic movie still, a red fox, cinematic lighting, highly detailed, photorealistic, 4k, smooth motion, professional color grading"

\* The branches whose promise was fulfilled with a response without a uri.
EmptyBranches ==
  {b \in DOMAIN branches : Fulfilled(branches[b]) /\ branches[b].rx.value.uri = ""}

RejectedBranches == {b \in DOMAIN branches : Rejected(branches[b])}

\* C34: a branch fulfilled without a video uri gives no artifact and is
\* never started again; when every branch ended that way or was rejected,
\* no artifact is collected and the fallback runs, its primary error being
\* the generic one when no branch was rejected.
C34_EmptyResponseFallsBack ==
  /\ [](/\ \A b \in EmptyBranches :
             /\ BranchSettled(branches[b])
             /\ branches[b].starts = branches[b].rx.i + 1
             /\ \A j \in DOMAIN result.uris : BranchOfUri(result.uris[j]) # b
        /\ (Aggregated /\ EmptyBranches \cup RejectedBranches = DOMAIN branches) =>
             /\ fbCalls = 1
             /\ result.uris = <<>>
             /\ RejectedBranches = {} =>
                  primaryError = NewError("Video generation failed (No valid URIs)."))
  /\ [][\A b \in EmptyBranches : branches'[b] = branches[b]]_vars

C34_Witness ==
  /\ fbCalls = 1
  /\ Len(branches) = 2
  /\ EmptyBranches = {1, 2}
  /\ primaryError.message = "Video generation failed (No valid URIs)."

\* C35: when every branch was rejected, the primary error of the fallback
\* and of the combined error is the reason of the lowest rejected branch,
\* whichever branch was rejected first in time.
C35_PrimaryErrorIsLowestRejected ==
  (fbCalls > 0 /\ RejectedBranches # {}) =>
    LET low == CHOOSE b \in RejectedBranches : \A c \in RejectedBranches : b <= c
    IN  /\ primaryError = branches[low].rx.reason
        /\ pc = "thrown" =>
             error.message =
               "Video generation failed and Image fallback also failed: "
                 \o getErrorMessage(branches[low].rx.reason)

\* C35 witness: branch 2 was rejected before branch 1, with another error.
C35_Witness ==
  /\ pc = "thrown"
  /\ fbCalls > 0
  /\ settled = <<2, 1>>
  /\ RejectedBranches = {1, 2}
  /\ branches[1].rx.reason # branches[2].rx.reason
  /\ primaryError = branches[1].rx.reason

\* C36: in a returned video result uri is uris[1], it is the video of the
\* lowest branch that produced one, and videoMetadata is that branch's
\* video.
C36_PrimaryIsLowestSuccessfulBranch ==
  (pc = "returned" /\ ~result.isFallbackImage) =>
    /\ VideoBranches # {}
    /\ result.uri = result.uris[1]
    /\ LET low == CHOOSE b \in VideoBranches : \A c \in VideoBranches : b <= c
       IN  /\ BranchOfUri(result.uri) = low
           /\ result.videoMetadata = branches[low].rx.value.uri
           /\ FullUri(result.videoMetadata) = result.uri

\* C36 witness: both branches produced a video, branch 2 first.
C36_Witness ==
  /\ pc = "returned"
  /\ settled = <<2, 1>>
  /\ VideoBranches = {1, 2}
  /\ result.videoMetadata = branches[1].rx.value.uri

\* C38: retryWithBackoff with maxRetries <= 0 never invokes the operation
\* and never waits; it throws at once, and what it throws is undefined.
C38_NoBudgetThrowsUndefined ==
  /\ \A m \in -MaxRetriesArg..0 :
       /\ RetryBegin(m).pc = "thrown"
       /\ RetryBegin(m).reason = NoError
       /\ ~Truthy(RetryBegin(m).reason)
  /\ rxArgs.maxRetries <= 0 =>
       /\ rx.pc = "thrown"
       /\ invoked = 0
       /\ delays = <<>>
       /\ rx.reason = NoError
       /\ rx.lastError = NoError

C38_Witness ==
  /\ rx.pc = "thrown"
  /\ rxArgs.maxRetries = 0
  /\ invoked = 0
  /\ rx.reason.kind = "none"


\* ---------------- convertImageToCompatibleFormat; generateVideo before
\* ---------------- its fan-out
\* C31: for a PNG/JPEG data URI the conversion resolves without decoding
\* anything, with the mime type and the payload of the input: rebuilding
\* the data URI from them gives the input back, and converting the
\* returned fullDataUri gives the same result again.
C31_PassThroughRoundTrip ==
  (IsCompatibleDataUri(nin) /\ npc # "entry") =>
    /\ npc = "resolved"
    /\ nloads = 0
    /\ nerr = NoError
    /\ nout.mimeType \in {"image/png", "image/jpeg", "image/jpg"}
    /\ "data:" \o nout.mimeType \o ";base64," \o nout.data = nin
    /\ nout.fullDataUri = nin
    /\ IsCompatibleDataUri(nout.fullDataUri)
    /\ ConvertPassThrough(nout.fullDataUri) = nout

C31_Witness ==
  /\ npc = "resolved"
  /\ nin = "data:image/jpeg;base64,/9j/4AAQ"
  /\ nout.mimeType = "image/jpeg"
  /\ nout.data = "/9j/4AAQ"

\* C32: for any other input the conversion hands the input to a decoder
\* exactly once and then either resolves with an image/png result or
\* rejects with a conversion error, never both.
C32_ConvertsToPngOrFails ==
  ~IsCompatibleDataUri(nin) =>
    /\ nloads <= 1
    /\ npc # "entry" => nloads = 1
    /\ npc = "resolved" =>
         /\ nout.mimeType = "image/png"
         /\ nout.fullDataUri = "data:image/png;base64," \o nout.data
         /\ nerr = NoError
    /\ npc = "rejected" =>
         /\ nerr \in ConversionErrors
         /\ nout = NoConversion
    /\ npc \in {"entry", "loading"} => (nout = NoConversion /\ nerr = NoError)

C32_Witness ==
  /\ npc = "rejected"
  /\ nin = "data:image/webp;base64,AAAA"
  /\ nerr = ImageLoadError
  /\ nloads = 1

\* C37: without an API key generateVideo throws the missing-key error
\* with nothing converted, no branch started and no fallback call; and a
\* reference image whose conversion fails ends the request with the
\* conversion's error, no branch started and no fallback call, so that a
\* branch is only ever started with every reference converted.
C37_EarlyFailuresSkipFanOutAndFallback ==
  /\ (~req.hasKey /\ pc # "entry") =>
       /\ pc = "thrown"
       /\ error = MissingKeyError
       /\ inputs = [prompt |-> "", image |-> NoImage]
       /\ finalInputImageBase64 = ""
       /\ config = NoConfig
       /\ branches = <<>>
       /\ fbCalls = 0
  /\ error \in ConversionErrors =>
       /\ pc = "thrown"
       /\ ConvertsReferences(req)
       /\ Len(config.referenceImages) < Len(req.referenceImages)
       /\ branches = <<>>
       /\ fbCalls = 0
       /\ result = NoResult
  /\ (ConvertsReferences(req) /\ (branches # <<>> \/ fbCalls > 0)) =>
       Len(config.referenceImages) = Len(req.referenceImages)

\* C37 witness: the first reference passed through, the second failed.
C37_Witness ==
  /\ pc = "thrown"
  /\ error = ImageLoadError
  /\ Len(req.referenceImages) = 2
  /\ Len(config.referenceImages) = 1
  /\ branches = <<>>
  /\ fbCalls = 0

====
